---- MODULE Spec2Model ----
(***************************************************************************)
(* clip-flow: the local transcription pipeline (transcribe_media,          *)
(* transcribe_audio, FFmpegService, WhisperService) and the model store    *)
(* (DownloadService), as state machines.                                   *)
(*                                                                         *)
(* Conventions                                                             *)
(*   - Texts are sequences of one-character strings.                       *)
(*   - Times (f64 seconds in the code) are integers in milliseconds.       *)
(*   - A sub-stage progress value (the f32 handed to on_progress) is an    *)
(*     integer in tenths of a percent: on_progress(100.0) is 1000.         *)
(*   - The percent of an emitted TranscriptionProgress event is an integer *)
(*     in hundredths of a percent: 30.0 is 3000, so that progress * 0.3    *)
(*     and 30.0 + progress * 0.7 are exact (3 * p and 3000 + 7 * p).       *)
(*   - An async fn is cut at its await points: one action runs from the    *)
(*     completion of one await to the start of the next.                   *)
(*   - File sizes and chunk lengths are in units of 1000 bytes.            *)
(*                                                                         *)
(* Assumptions on the environment                                          *)
(*   - dirs::data_local_dir() resolves, so DownloadService::new and        *)
(*     WhisperService::new do not fail with InvalidPath.                   *)
(*   - An HTTP body stream that ends without an error has delivered the    *)
(*     whole body of the response.                                         *)
(***************************************************************************)
EXTENDS Integers, Sequences, FiniteSets, TLC

VARIABLES
    \* ---- transcription pipeline (commands/transcribe.rs) ----
    cmd,        \* which command this run is: "transcribe_media" | "transcribe_audio"
    pc,         \* the await point the run is suspended at, or "done" / "cancelled"
    ret,        \* the command's Result: [tag |-> "Pending" | "Ok" | "Err", ..]
    events,     \* the "transcription:progress" events emitted, in order
    env,        \* the machine: which binaries are found, whether the model is installed
    fsys,       \* files of this run: temp dir, temp .wav, engine .json
    procs,      \* state of each child process: "none" | "running" | "exited"
    spawned,    \* how many times each binary was spawned
    run,        \* locals of the run (duration, lines read, ghost flags)
    \* ---- model store (services/download.rs) ----
    dpc,        \* await point of the current DownloadService call, or "idle"
    dl,         \* locals of the current download_model call
    files,      \* canonical model files ggml-<id>.bin: model id -> Option<content>
    tmpf,       \* temporary files ggml-<id>.bin.tmp: model id -> Option<content>
    dcall,      \* ghost: the current (or last) DownloadService call and its outcome
    modelsDir,  \* whether the models directory exists
    \* ---- further parts of the program, each a record with its own position ----
    parse,      \* one evaluation of the segment-time extraction of parse_whisper_output
    inst,       \* one call of WhisperService::install_whisper_cpp
    loc,        \* one call of WhisperService::find_whisper_cpp
    conc,       \* concurrent transcribe_media runs and the temporary files they share
    lst,        \* one call of DownloadService::get_installed_models
    kc,         \* the system keychain and the KeychainService calls made on it
    dels,       \* delete_model calls that run concurrently on one model file
    wat         \* the shared WatcherState and the watcher commands running on it

pvars == <<cmd, pc, ret, events, env, fsys, procs, spawned, run>>
dvars == <<dpc, dl, files, tmpf, dcall, modelsDir>>
xvars == <<parse, inst, loc, conc, lst>>
yvars == <<kc, dels, wat>>
vars == <<cmd, pc, ret, events, env, fsys, procs, spawned, run,
          dpc, dl, files, tmpf, dcall, modelsDir,
          parse, inst, loc, conc, lst, kc, dels, wat>>

\* a part of the program that a specification leaves out stays off
Off == [pc |-> "off"]
KeychainOff == kc = Off
DeletesOff == dels = Off
WatcherOff == wat = Off

(***************************************************************************)
(* Bounds of the model.                                                    *)
(***************************************************************************)
\* progress lines read from one child process
MaxLines == 2
\* body chunks of one HTTP response
MaxChunks == 2
\* DownloadService calls in one behaviour
MaxCalls == 2

\* Option<T>: None is the empty sequence, Some(x) the one-element sequence.
None == <<>>
Some(x) == <<x>>
IsSome(o) == o # <<>>
Unwrap(o) == o[1]

(***************************************************************************)
(* Text helpers.                                                           *)
(***************************************************************************)
Last(s) == s[Len(s)]

\* char::is_whitespace, on the characters the model uses
IsWhitespace(c) == c \in {" ", "\n", "\t"}

RECURSIVE TrimStart(_)
TrimStart(s) ==
    IF s = <<>> THEN <<>>
    ELSE IF IsWhitespace(Head(s)) THEN TrimStart(Tail(s))
    ELSE s

RECURSIVE TrimEnd(_)
TrimEnd(s) ==
    IF s = <<>> THEN <<>>
    ELSE IF IsWhitespace(Last(s)) THEN TrimEnd(SubSeq(s, 1, Len(s) - 1))
    ELSE s

\* str::trim
Trim(s) == TrimEnd(TrimStart(s))

\* str::split(sep): the pieces between the occurrences of sep
RECURSIVE SplitAcc(_, _, _)
SplitAcc(s, sep, cur) ==
    IF s = <<>> THEN <<cur>>
    ELSE IF Head(s) = sep THEN <<cur>> \o SplitAcc(Tail(s), sep, <<>>)
    ELSE SplitAcc(Tail(s), sep, Append(cur, Head(s)))

Split(s, sep) == SplitAcc(s, sep, <<>>)

\* str::replace(from, to) for single characters
Replace(s, from, to) == [i \in 1..Len(s) |-> IF s[i] = from THEN to ELSE s[i]]

Digits == {"0", "1", "2", "3", "4", "5", "6", "7", "8", "9"}

DigitVal(c) ==
    CASE c = "0" -> 0 [] c = "1" -> 1 [] c = "2" -> 2 [] c = "3" -> 3
      [] c = "4" -> 4 [] c = "5" -> 5 [] c = "6" -> 6 [] c = "7" -> 7
      [] c = "8" -> 8 [] c = "9" -> 9

AllDigits(s) == \A i \in 1..Len(s) : s[i] \in Digits

RECURSIVE NatOf(_)
NatOf(s) == IF s = <<>> THEN 0 ELSE NatOf(SubSeq(s, 1, Len(s) - 1)) * 10 + DigitVal(Last(s))

\* the fraction digits of a decimal as milliseconds (digits past the third dropped)
FracMillis(f) ==
    LET d(i) == IF i <= Len(f) THEN DigitVal(f[i]) ELSE 0
    IN d(1) * 100 + d(2) * 10 + d(3)

\* str::parse::<f64>() on the decimal notation [+-]digits[.digits], in
\* milliseconds; None for a text that is no such number (Err, then .ok()).
ParseF64(s) ==
    LET signed == s # <<>> /\ s[1] \in {"+", "-"}
        body == IF signed THEN Tail(s) ELSE s
        parts == Split(body, ".")
        ok == /\ Len(parts) \in {1, 2}
              /\ \A i \in 1..Len(parts) : AllDigits(parts[i])
              /\ \E i \in 1..Len(parts) : parts[i] # <<>>
        mag == NatOf(parts[1]) * 1000
               + (IF Len(parts) = 2 THEN FracMillis(parts[2]) ELSE 0)
    IN IF ~ok THEN None
       ELSE IF signed /\ s[1] = "-" THEN Some(0 - mag)
       ELSE Some(mag)

\* WhisperService::parse_timestamp: "HH:MM:SS.mmm" or "HH:MM:SS,mmm" to seconds
parse_timestamp(s) ==
    LET parts == Split(s, ":")
    IN IF Len(parts) = 3
       THEN LET hours == ParseF64(parts[1])
                minutes == ParseF64(parts[2])
                seconds == ParseF64(Replace(parts[3], ",", "."))
            IN IF IsSome(hours) /\ IsSome(minutes) /\ IsSome(seconds)
               THEN Some(Unwrap(hours) * 3600 + Unwrap(minutes) * 60 + Unwrap(seconds))
               ELSE None
       ELSE None

(***************************************************************************)
(* IEEE-754 binary64 arithmetic on non-negative values, as the f64         *)
(* operations of parse_timestamp and of the offset conversion perform it.  *)
(* A natural number of any size is a sequence of digits in base BigBase,   *)
(* least significant first, without leading zero digits (zero is <<>>).    *)
(* A double is [mant, exp] with 2^52 <= mant < 2^53 and value              *)
(* mant * 2^(exp - 52), or F64Zero.                                        *)
(***************************************************************************)
BigBase == 4096
BigBits == 12
MantBits == 52

RECURSIVE BNorm(_)
BNorm(a) ==
    IF a = <<>> THEN <<>>
    ELSE IF a[Len(a)] = 0 THEN BNorm(SubSeq(a, 1, Len(a) - 1))
    ELSE a

RECURSIVE BFromNat(_)
BFromNat(n) == IF n = 0 THEN <<>> ELSE <<n % BigBase>> \o BFromNat(n \div BigBase)

RECURSIVE BAddC(_, _, _)
BAddC(a, b, c) ==
    IF a = <<>> /\ b = <<>> THEN (IF c = 0 THEN <<>> ELSE <<c>>)
    ELSE LET x == IF a = <<>> THEN 0 ELSE Head(a)
             y == IF b = <<>> THEN 0 ELSE Head(b)
             t == x + y + c
         IN <<t % BigBase>>
                \o BAddC(IF a = <<>> THEN <<>> ELSE Tail(a),
                         IF b = <<>> THEN <<>> ELSE Tail(b), t \div BigBase)

BAdd(a, b) == BAddC(a, b, 0)

\* a * k + c for a small k
RECURSIVE BMulSmallC(_, _, _)
BMulSmallC(a, k, c) ==
    IF a = <<>> THEN BFromNat(c)
    ELSE LET t == Head(a) * k + c
         IN <<t % BigBase>> \o BMulSmallC(Tail(a), k, t \div BigBase)

BMulSmall(a, k) == IF k = 0 THEN <<>> ELSE BMulSmallC(a, k, 0)

\* quotient and remainder of a / k for a small k > 0
RECURSIVE BDivSmall(_, _)
BDivSmall(a, k) ==
    IF a = <<>> THEN [q |-> <<>>, r |-> 0]
    ELSE LET hi == BDivSmall(Tail(a), k)
             cur == hi.r * BigBase + Head(a)
         IN [q |-> <<cur \div k>> \o hi.q, r |-> cur % k]

RECURSIVE Pow2(_)
Pow2(n) == IF n = 0 THEN 1 ELSE 2 * Pow2(n - 1)

\* a * 2^n
BShl(a, n) ==
    IF a = <<>> THEN <<>>
    ELSE BMulSmall([i \in 1..(n \div BigBits) |-> 0] \o a, Pow2(n % BigBits))

\* floor(a / 2^n)
BShr(a, n) ==
    IF Len(a) <= n \div BigBits THEN <<>>
    ELSE BNorm(BDivSmall(SubSeq(a, n \div BigBits + 1, Len(a)), Pow2(n % BigBits)).q)

RECURSIVE BitLen(_)
BitLen(n) == IF n = 0 THEN 0 ELSE 1 + BitLen(n \div 2)

\* number of binary digits of a
BBitLen(a) == IF a = <<>> THEN 0 ELSE BigBits * (Len(a) - 1) + BitLen(a[Len(a)])

F64Zero == [mant |-> <<>>, exp |-> 0]

\* the double nearest to n / (k * 2^t), ties to even, for a small k > 0: the
\* quotient is taken to 54 or 55 bits plus a sticky bit and rounded to 53
RoundToF64(n, k, t) ==
    IF n = <<>> THEN F64Zero ELSE
    LET s == MantBits + 2 + BitLen(k) - BBitLen(n)
        scaled == IF s >= 0 THEN BShl(n, s) ELSE BShr(n, 0 - s)
        lost == s < 0 /\ BShl(scaled, 0 - s) # n
        qr == BDivSmall(scaled, k)
        q == BNorm(qr.q)
        sticky == lost \/ qr.r # 0
        drop == BBitLen(q) - (MantBits + 1)
        low == q[1] % Pow2(drop)
        half == Pow2(drop - 1)
        m == BShr(q, drop)
        up == low > half \/ (low = half /\ (sticky \/ m[1] % 2 = 1))
        m1 == IF up THEN BAddC(m, <<>>, 1) ELSE m
        exp == drop - s - t + MantBits
    IN IF BBitLen(m1) > MantBits + 1
       THEN [mant |-> BShr(m1, 1), exp |-> exp + 1]
       ELSE [mant |-> m1, exp |-> exp]

\* i64 as f64, for a value that is not negative
F64FromNat(n) == RoundToF64(BFromNat(n), 1, 0)

\* x + y
F64Add(x, y) ==
    IF x = F64Zero THEN y
    ELSE IF y = F64Zero THEN x
    ELSE LET t == IF x.exp < y.exp THEN x.exp ELSE y.exp
         IN RoundToF64(BAdd(BShl(x.mant, x.exp - t), BShl(y.mant, y.exp - t)),
                       1, MantBits - t)

\* x * k for a double k that is a small natural number
F64MulNat(x, k) ==
    IF x = F64Zero \/ k = 0 THEN F64Zero
    ELSE RoundToF64(BMulSmall(x.mant, k), 1, MantBits - x.exp)

\* x / k for a double k that is a small positive natural number
F64DivNat(x, k) ==
    IF x = F64Zero THEN F64Zero ELSE RoundToF64(x.mant, k, MantBits - x.exp)

RECURSIVE Pow10(_)
Pow10(n) == IF n = 0 THEN 1 ELSE 10 * Pow10(n - 1)

\* str::parse::<f64>() at full precision, on the notation digits[.digits]
\* (the engine writes no sign and no exponent): the double nearest to the
\* decimal; None for a text that is no such number
ParseF64Exact(s) ==
    LET parts == Split(s, ".")
        ok == /\ Len(parts) \in {1, 2}
              /\ \A i \in 1..Len(parts) : AllDigits(parts[i])
              /\ \E i \in 1..Len(parts) : parts[i] # <<>>
        frac == IF Len(parts) = 2 THEN parts[2] ELSE <<>>
    IN IF ~ok THEN None
       ELSE Some(RoundToF64(BFromNat(NatOf(parts[1] \o frac)), Pow10(Len(frac)), 0))

\* mutant of parse_timestamp_f64: the comma is not replaced by a period
parse_timestamp_f64_NoComma(s) ==
    LET parts == Split(s, ":")
    IN IF Len(parts) = 3
       THEN LET hours == ParseF64Exact(parts[1])
                minutes == ParseF64Exact(parts[2])
                seconds == ParseF64Exact(parts[3])
            IN IF IsSome(hours) /\ IsSome(minutes) /\ IsSome(seconds)
               THEN Some(F64Add(F64Add(F64MulNat(Unwrap(hours), 3600),
                                       F64MulNat(Unwrap(minutes), 60)),
                                Unwrap(seconds)))
               ELSE None
       ELSE None

\* WhisperService::parse_timestamp at full f64 precision:
\* hours * 3600.0 + minutes * 60.0 + seconds, each operation rounded
parse_timestamp_f64(s) ==
    LET parts == Split(s, ":")
    IN IF Len(parts) = 3
       THEN LET hours == ParseF64Exact(parts[1])
                minutes == ParseF64Exact(parts[2])
                seconds == ParseF64Exact(Replace(parts[3], ",", "."))
            IN IF IsSome(hours) /\ IsSome(minutes) /\ IsSome(seconds)
               THEN Some(F64Add(F64Add(F64MulNat(Unwrap(hours), 3600),
                                       F64MulNat(Unwrap(minutes), 60)),
                                Unwrap(seconds)))
               ELSE None
       ELSE None

\* ms as f64 / 1000.0 of whisper.rs 216 and 228, for ms >= 0
OffsetSeconds(ms) == F64DivNat(F64FromNat(ms), 1000)

(***************************************************************************)
(* The engine's JSON output and WhisperService::parse_whisper_output.      *)
(* A document is [transcription |-> Option<Seq(segment)>,                  *)
(*                language |-> Option<text>]; a segment is                 *)
(* [timestamps |-> Option<[from, to : Option<text>]>,                      *)
(*  offsets |-> Option<[from, to : Option<Int>]>, text |-> Option<text>].  *)
(***************************************************************************)
\* mutant of SegTime: the offsets are preferred to the formatted timestamp
SegTime_OffsetsFirst(segment, which) ==
    LET formatted ==
            IF IsSome(segment.timestamps) /\ IsSome(Unwrap(segment.timestamps)[which])
            THEN parse_timestamp(Unwrap(Unwrap(segment.timestamps)[which]))
            ELSE None
        offset ==
            IF IsSome(segment.offsets) /\ IsSome(Unwrap(segment.offsets)[which])
            THEN Some(Unwrap(Unwrap(segment.offsets)[which]))
            ELSE None
    IN IF IsSome(offset) THEN Unwrap(offset)
       ELSE IF IsSome(formatted) THEN Unwrap(formatted)
       ELSE 0

\* start (which = "from") or end (which = "to") of one segment, whisper.rs 207-231
SegTime(segment, which) ==
    LET formatted ==
            IF IsSome(segment.timestamps) /\ IsSome(Unwrap(segment.timestamps)[which])
            THEN parse_timestamp(Unwrap(Unwrap(segment.timestamps)[which]))
            ELSE None
        offset ==
            IF IsSome(segment.offsets) /\ IsSome(Unwrap(segment.offsets)[which])
            THEN Some(Unwrap(Unwrap(segment.offsets)[which]))   \* ms as f64 / 1000.0
            ELSE None
    IN IF IsSome(formatted) THEN Unwrap(formatted)
       ELSE IF IsSome(offset) THEN Unwrap(offset)
       ELSE 0

\* SegTime at full f64 precision (whisper.rs 207-231), for offsets >= 0
SegTimeF64(segment, which) ==
    LET formatted ==
            IF IsSome(segment.timestamps) /\ IsSome(Unwrap(segment.timestamps)[which])
            THEN parse_timestamp_f64(Unwrap(Unwrap(segment.timestamps)[which]))
            ELSE None
        offset ==
            IF IsSome(segment.offsets) /\ IsSome(Unwrap(segment.offsets)[which])
            THEN Some(OffsetSeconds(Unwrap(Unwrap(segment.offsets)[which])))
            ELSE None
    IN IF IsSome(formatted) THEN Unwrap(formatted)
       ELSE IF IsSome(offset) THEN Unwrap(offset)
       ELSE F64Zero

\* the TranscriptionSegment built from one JSON segment, before the emptiness test
SegmentOf(segment) ==
    [start |-> SegTime(segment, "from"),
     end |-> SegTime(segment, "to"),
     text |-> Trim(IF IsSome(segment.text) THEN Unwrap(segment.text) ELSE <<>>)]

\* the for loop of parse_whisper_output over the transcription array
RECURSIVE ParseLoop(_, _, _)
ParseLoop(transcription, segments, full_text) ==
    IF transcription = <<>>
    THEN [segments |-> segments, full_text |-> full_text]
    ELSE LET seg == SegmentOf(Head(transcription))
         IN IF seg.text # <<>>
            THEN ParseLoop(Tail(transcription), Append(segments, seg),
                           full_text \o seg.text \o <<" ">>)
            ELSE ParseLoop(Tail(transcription), segments, full_text)

\* mutant of DurationOf: segments.first() instead of segments.last()
DurationOf_First(segments) == IF segments = <<>> THEN 0 ELSE segments[1].end

\* segments.last().map(|s| s.end).unwrap_or(0.0)
DurationOf(segments) == IF segments = <<>> THEN 0 ELSE Last(segments).end

\* mutant of ParseDocument: full_text is returned without the final trim
ParseDocument_NoTrim(json) ==
    LET r == ParseLoop(IF IsSome(json.transcription) THEN Unwrap(json.transcription)
                       ELSE <<>>, <<>>, <<>>)
    IN [segments |-> r.segments,
        full_text |-> r.full_text,
        language |-> json.language,
        duration |-> DurationOf(r.segments)]

\* the TranscriptionResult parse_whisper_output builds from a parsed document
ParseDocument(json) ==
    LET r == ParseLoop(IF IsSome(json.transcription) THEN Unwrap(json.transcription)
                       ELSE <<>>, <<>>, <<>>)
    IN [segments |-> r.segments,
        full_text |-> Trim(r.full_text),
        language |-> json.language,
        duration |-> DurationOf(r.segments)]

(***************************************************************************)
(* Inputs: what the external binaries can hand to the program.             *)
(***************************************************************************)
DigitChar(d) ==
    CASE d = 0 -> "0" [] d = 1 -> "1" [] d = 2 -> "2" [] d = 3 -> "3"
      [] d = 4 -> "4" [] d = 5 -> "5" [] d = 6 -> "6" [] d = 7 -> "7"
      [] d = 8 -> "8" [] d = 9 -> "9"

TwoDigits(n) == <<DigitChar((n \div 10) % 10), DigitChar(n % 10)>>
ThreeDigits(n) == <<DigitChar((n \div 100) % 10)>> \o TwoDigits(n % 100)

\* the engine's formatted timestamp HH:MM:SS<sep>mmm for a time in milliseconds
EngineTimestamp(ms, sep) ==
    TwoDigits(ms \div 3600000) \o <<":">> \o TwoDigits((ms \div 60000) % 60) \o <<":">>
        \o TwoDigits((ms \div 1000) % 60) \o <<sep>> \o ThreeDigits(ms % 1000)

\* a segment carrying formatted timestamps only
TsSegment(from, to, sep, text) ==
    [timestamps |-> Some([from |-> Some(EngineTimestamp(from, sep)),
                          to |-> Some(EngineTimestamp(to, sep))]),
     offsets |-> None,
     text |-> Some(text)]

\* a segment carrying millisecond offsets only
OffSegment(from, to, text) ==
    [timestamps |-> None,
     offsets |-> Some([from |-> Some(from), to |-> Some(to)]),
     text |-> Some(text)]

TextHello == <<" ", "H", "e", "l", "l", "o">>
TextWorld == <<"w", "o", "r", "l", "d", "\n">>
TextLang == <<"e", "n">>

\* the documents the engine writes in the model
EngineDocuments ==
    { \* three segments "Hello", "", "world"
      [transcription |-> Some(<<TsSegment(0, 1500, ",", TextHello),
                                TsSegment(1500, 2000, ",", <<>>),
                                TsSegment(2000, 83456, ".", TextWorld)>>),
       language |-> Some(TextLang)],
      \* the last segment is blank and ends after the last retained one
      [transcription |-> Some(<<OffSegment(0, 1000, <<"a">>),
                                OffSegment(1000, 2500, <<" ", " ">>)>>),
       language |-> None],
      \* offsets the parser takes as they are: a negative start, and an end
      \* before the start
      [transcription |-> Some(<<OffSegment(0 - 500, 1000, <<"a">>),
                                OffSegment(3000, 2000, <<"b">>)>>),
       language |-> None],
      \* only blank segments
      [transcription |-> Some(<<OffSegment(0, 700, <<" ">>),
                                [timestamps |-> None, offsets |-> None, text |-> None]>>),
       language |-> Some(TextLang)],
      \* an empty transcription array, and no transcription member at all
      [transcription |-> Some(<<>>), language |-> None],
      [transcription |-> None, language |-> None] }

\* what the engine leaves at the output path when it exits with status 0:
\* nothing, a file that is no JSON, or a document
EngineFiles ==
    {None, Some([kind |-> "invalid"])}
        \cup {Some([kind |-> "json", doc |-> d]) : d \in EngineDocuments}

\* a JSON file of the user's that lies at audio_path.with_extension("json")
\* (whisper.rs 139) before transcribe_audio is called with the user's audio_path
\* (transcribe.rs 87); transcribe_media's path is a fresh uuid (transcribe.rs 36-37)
UserFile == Some([kind |-> "json",
                  doc |-> [transcription |-> None, language |-> Some(<<"u">>)]])

\* ffprobe's duration output, in milliseconds
Durations == {2000}

\* values of out_time_ms= lines (microseconds) ffmpeg prints with -progress
OutTimes == {0 - 1000000, 0, 1000000, 3000000}

\* N of the engine's "progress = N%" lines, in tenths of a percent
EnginePercents == {0, 500, 1000}

ModelId == "tiny"

(***************************************************************************)
(* Results, events, progress arithmetic.                                   *)
(***************************************************************************)
Pending == [tag |-> "Pending"]
Ok(v) == [tag |-> "Ok", value |-> v]
Err(kind, msg) == [tag |-> "Err", kind |-> kind, msg |-> msg]

Min(a, b) == IF a < b THEN a ELSE b

\* emit_progress, transcribe.rs 153-159
emit_progress(evs, stage, progress) ==
    Append(evs, [stage |-> stage, progress |-> progress])

\* ffmpeg.rs 181-182: (time_sec / duration * 100.0).min(100.0), tenths of a percent
ExtractProgress(time_us, duration) == Min(time_us \div duration, 1000)

\* the closure of transcribe.rs 42-44: progress * 0.3
ExtractingPercent(progress) == 3 * progress

\* the closure of transcribe.rs 59-67 (30.0 + progress * 0.7), and the one of
\* transcribe_audio, transcribe.rs 98-105 (progress passed through)
TranscribingPercent(c, progress) ==
    IF c = "transcribe_media" THEN 3000 + 7 * progress ELSE 10 * progress

(***************************************************************************)
(* The model store's files, as the pipeline sees them.                     *)
(***************************************************************************)
\* ids of WhisperModel::available_models(), download.rs 22-97
Catalog == {"tiny", "base", "small", "medium", "large-v1", "large-v2", "large-v3",
            "large-v3-turbo"}

\* the model ids the calls of the model are made with ("bogus" is in no catalog)
RequestIds == {"tiny", "bogus"}

NoFiles == [m \in RequestIds |-> None]

\* DownloadService::is_model_installed, download.rs 154-157
is_model_installed(model_id) == IsSome(files[model_id])

\* the download side at rest
DlIdle == [model_id |-> "", total_size |-> 0, downloaded |-> 0, body |-> <<>>,
           status |-> 0, next |-> 0]

\* what is remembered of the call before the current one
NoPrev == [op |-> "", model_id |-> "", tag |-> "", kind |-> "", wasInstalled |-> FALSE]

\* no call made yet
NoCall == [n |-> 0, op |-> "", model_id |-> "", ret |-> Pending, requests |-> 0,
           progress |-> <<>>, wasInstalled |-> FALSE, cancelled |-> FALSE,
           prev |-> NoPrev]

\* the call c as the one before the next call
AsPrev(c) == [op |-> c.op, model_id |-> c.model_id,
              tag |-> IF c.cancelled THEN "Cancelled" ELSE c.ret.tag,
              kind |-> IF ~c.cancelled /\ c.ret.tag = "Err" THEN c.ret.kind ELSE "",
              wasInstalled |-> c.wasInstalled]

\* a file written by download number call from a response with the given
\* status: the bytes on disk (one entry per chunk, its length) and, as a ghost,
\* the whole body of that response
FileContent(call, status, bytes, of) ==
    [call |-> call, status |-> status, bytes |-> bytes, of |-> of]

(***************************************************************************)
(* transcribe_media / transcribe_audio.                                    *)
(***************************************************************************)
\* the await points a run can be suspended at
AwaitPcs == {"probe", "mkdir", "duration", "ffmpeg_read", "ffmpeg_wait",
             "whisper_read", "whisper_wait", "read_json", "rm_json", "rm_wav"}

NoProcs == [ffprobe |-> "none", ffmpeg |-> "none", whisper |-> "none"]

\* the locals of a run at its start.  duration, result: locals of the code;
\* ffLines, whLines: lines read so far; cb: the on_progress calls made so far;
\* the rest are ghosts recording what has happened: wavPath (audio_path was
\* built), mkdirCalled (create_dir_all was called), cleanup (remove_file of
\* audio_path was executed), probe (outcome of get_media_info), ffStatus
\* (ffmpeg's exit status), transcribeCalled, doc (the document read from the
\* engine's file), cancelledAt (the await point the run was dropped at),
\* probeCalls (calls of get_media_info), durProbe (outcome of get_duration),
\* whStatus (the engine's exit status), rmJson (remove_file of the engine's
\* output file was executed), attempts (calls of Command::spawn / output per
\* binary, whether or not the process could be started)
RunStart ==
    [model_id |-> ModelId, duration |-> 0, ffLines |-> 0, whLines |-> 0,
     wavPath |-> FALSE, mkdirCalled |-> FALSE, cleanup |-> FALSE, probe |-> "",
     ffStatus |-> None, transcribeCalled |-> FALSE, doc |-> None,
     result |-> None, cancelledAt |-> "", cb |-> <<>>,
     probeCalls |-> 0, durProbe |-> "", whStatus |-> None, rmJson |-> FALSE,
     jsonBefore |-> None,
     attempts |-> [ffprobe |-> 0, ffmpeg |-> 0, whisper |-> 0]]

InitPipeline ==
    /\ cmd \in {"transcribe_media", "transcribe_audio"}
    /\ pc = "start"
    /\ ret = Pending
    /\ events = <<>>
    /\ env \in [ffprobe : BOOLEAN, ffmpeg : BOOLEAN, whisper : BOOLEAN]
    /\ fsys \in [tempDir : BOOLEAN, wav : {cmd = "transcribe_audio"},
                 json : IF cmd = "transcribe_audio" THEN {None, UserFile} ELSE {None}]
    /\ procs = NoProcs
    /\ spawned = [ffprobe |-> 0, ffmpeg |-> 0, whisper |-> 0]
    /\ run = [RunStart EXCEPT !.jsonBefore = fsys.json]
    /\ dpc = "idle"
    /\ dl = DlIdle
    /\ files \in {NoFiles,
                  [NoFiles EXCEPT ![ModelId] = Some(FileContent(0, 200, <<1>>, <<1>>))]}
    /\ tmpf = NoFiles
    /\ dcall = NoCall
    /\ modelsDir = TRUE
    /\ parse = Off /\ inst = Off /\ loc = Off /\ conc = Off /\ lst = Off
    /\ KeychainOff /\ DeletesOff /\ WatcherOff

\* the error of transcribe.rs 27-29
NoAudioStream == Err("FFmpeg", "This video does not contain an audio stream")

\* the run returns r
Return(r) == pc' = "done" /\ ret' = r

\* mutant of Start: the engine and the model are looked for on entry, before the
\* media is probed
Start_ChecksFirst ==
    /\ cmd = "transcribe_media" /\ pc = "start"
    /\ IF ~env.whisper
       THEN /\ Return(Err("Whisper", "whisper.cpp not found"))
            /\ UNCHANGED <<procs, spawned>>
       ELSE IF ~is_model_installed(run.model_id)
       THEN /\ Return(Err("ModelNotFound", run.model_id))
            /\ UNCHANGED <<procs, spawned>>
       ELSE IF env.ffprobe
       THEN /\ procs' = [procs EXCEPT !.ffprobe = "running"]
            /\ spawned' = [spawned EXCEPT !.ffprobe = @ + 1]
            /\ pc' = "probe"
            /\ ret' = ret
       ELSE /\ Return(Err("FFmpeg", "Failed to run ffprobe"))
            /\ UNCHANGED <<procs, spawned>>
    /\ run' = [run EXCEPT !.probeCalls = @ + 1, !.attempts.ffprobe = @ + 1]
    /\ UNCHANGED <<cmd, events, env, fsys, dvars, xvars, yvars>>

\* FFmpegService::get_media_info up to the await of Command::output (ffmpeg.rs
\* 226-238), entered from transcribe_media (transcribe.rs 22-25)
Start ==
    /\ cmd = "transcribe_media" /\ pc = "start"
    /\ IF env.ffprobe
       THEN /\ procs' = [procs EXCEPT !.ffprobe = "running"]
            /\ spawned' = [spawned EXCEPT !.ffprobe = @ + 1]
            /\ pc' = "probe"
            /\ ret' = ret
       ELSE /\ Return(Err("FFmpeg", "Failed to run ffprobe"))
            /\ UNCHANGED <<procs, spawned>>
    /\ run' = [run EXCEPT !.probeCalls = @ + 1, !.attempts.ffprobe = @ + 1]
    /\ UNCHANGED <<cmd, events, env, fsys, dvars, xvars, yvars>>

\* mutant of ProbeDone: the first progress event is emitted before has_audio is
\* looked at
ProbeDone_EmitFirst ==
    /\ pc = "probe"
    /\ procs' = [procs EXCEPT !.ffprobe = "exited"]
    /\ \E outcome \in {"failed", "badjson", "noaudio", "audio"} :
        /\ run' = [run EXCEPT !.probe = outcome, !.mkdirCalled = (outcome = "audio")]
        /\ CASE outcome = "failed" ->
                /\ Return(Err("FFmpeg", "Failed to get media info"))
                /\ events' = events
          [] outcome = "badjson" ->
                /\ Return(Err("Json", "invalid"))
                /\ events' = events
          [] outcome = "noaudio" ->
                /\ Return(NoAudioStream)
                /\ events' = emit_progress(events, "extracting", 0)
          [] outcome = "audio" ->
                /\ events' = emit_progress(events, "extracting", 0)
                /\ pc' = "mkdir"
                /\ ret' = ret
    /\ UNCHANGED <<cmd, env, fsys, spawned, dvars, xvars, yvars>>

\* ffprobe has exited: the rest of get_media_info (ffmpeg.rs 240-272), then
\* transcribe.rs 26-36 up to the await of create_dir_all
ProbeDone ==
    /\ pc = "probe"
    /\ procs' = [procs EXCEPT !.ffprobe = "exited"]
    /\ \E outcome \in {"failed", "badjson", "noaudio", "audio"} :
        /\ run' = [run EXCEPT !.probe = outcome, !.mkdirCalled = (outcome = "audio")]
        /\ CASE outcome = "failed" ->
                /\ Return(Err("FFmpeg", "Failed to get media info"))
                /\ events' = events
          [] outcome = "badjson" ->
                /\ Return(Err("Json", "invalid"))
                /\ events' = events
          [] outcome = "noaudio" ->
                /\ Return(NoAudioStream)
                /\ events' = events
          [] outcome = "audio" ->
                /\ events' = emit_progress(events, "extracting", 0)
                /\ pc' = "mkdir"
                /\ ret' = ret
    /\ UNCHANGED <<cmd, env, fsys, spawned, dvars, xvars, yvars>>

\* create_dir_all has finished: transcribe.rs 36-42, then extract_audio up to
\* the await inside get_duration (ffmpeg.rs 153, 201-212)
MkdirDone ==
    /\ pc = "mkdir"
    /\ \E ok \in BOOLEAN :
        IF ~ok /\ ~fsys.tempDir
        THEN /\ Return(Err("Io", "create_dir_all"))
             /\ UNCHANGED <<fsys, run, procs, spawned>>
        ELSE /\ fsys' = [fsys EXCEPT !.tempDir = TRUE]
             /\ run' = [run EXCEPT !.wavPath = TRUE,
                                   !.durProbe = IF env.ffprobe THEN "" ELSE "norun",
                                   !.attempts.ffprobe = @ + 1]
             /\ IF env.ffprobe
                THEN /\ procs' = [procs EXCEPT !.ffprobe = "running"]
                     /\ spawned' = [spawned EXCEPT !.ffprobe = @ + 1]
                     /\ pc' = "duration"
                     /\ ret' = ret
                ELSE /\ Return(Err("FFmpeg", "Failed to run ffprobe"))
                     /\ UNCHANGED <<procs, spawned>>
    /\ UNCHANGED <<cmd, events, env, dvars, xvars, yvars>>

\* mutant of DurationDone: an unparsable duration does not stop the extraction
DurationDone_SpawnAnyway ==
    /\ pc = "duration"
    /\ \E outcome \in {"failed", "unparsable", "ok"}, d \in Durations :
        IF outcome = "failed"
        THEN /\ Return(Err("FFmpeg", "Failed to get media duration"))
             /\ procs' = [procs EXCEPT !.ffprobe = "exited"]
             /\ run' = [run EXCEPT !.durProbe = outcome]
             /\ spawned' = spawned
        ELSE IF env.ffmpeg
        THEN /\ procs' = [procs EXCEPT !.ffprobe = "exited", !.ffmpeg = "running"]
             /\ spawned' = [spawned EXCEPT !.ffmpeg = @ + 1]
             /\ run' = [run EXCEPT !.duration = d, !.durProbe = outcome,
                                           !.attempts.ffmpeg = @ + 1]
             /\ pc' = "ffmpeg_read"
             /\ ret' = ret
        ELSE /\ Return(Err("FFmpeg", "Failed to start ffmpeg"))
             /\ procs' = [procs EXCEPT !.ffprobe = "exited"]
             /\ run' = [run EXCEPT !.duration = d, !.durProbe = outcome,
                                           !.attempts.ffmpeg = @ + 1]
             /\ spawned' = spawned
    /\ UNCHANGED <<cmd, events, env, fsys, dvars, xvars, yvars>>

\* ffprobe has exited: the rest of get_duration (ffmpeg.rs 214-222), then
\* extract_audio up to the first read of ffmpeg's stdout (ffmpeg.rs 155-178)
DurationDone ==
    /\ pc = "duration"
    /\ \E outcome \in {"failed", "unparsable", "ok"}, d \in Durations :
        CASE outcome = "failed" ->
                /\ Return(Err("FFmpeg", "Failed to get media duration"))
                /\ procs' = [procs EXCEPT !.ffprobe = "exited"]
                /\ run' = [run EXCEPT !.durProbe = outcome]
                /\ spawned' = spawned
          [] outcome = "unparsable" ->
                /\ Return(Err("FFmpeg", "Failed to parse duration"))
                /\ procs' = [procs EXCEPT !.ffprobe = "exited"]
                /\ run' = [run EXCEPT !.durProbe = outcome]
                /\ spawned' = spawned
          [] outcome = "ok" ->
                IF env.ffmpeg
                THEN /\ procs' = [procs EXCEPT !.ffprobe = "exited", !.ffmpeg = "running"]
                     /\ spawned' = [spawned EXCEPT !.ffmpeg = @ + 1]
                     /\ run' = [run EXCEPT !.duration = d, !.durProbe = outcome,
                                           !.attempts.ffmpeg = @ + 1]
                     /\ pc' = "ffmpeg_read"
                     /\ ret' = ret
                ELSE /\ Return(Err("FFmpeg", "Failed to start ffmpeg"))
                     /\ procs' = [procs EXCEPT !.ffprobe = "exited"]
                     /\ run' = [run EXCEPT !.duration = d, !.durProbe = outcome,
                                           !.attempts.ffmpeg = @ + 1]
                     /\ spawned' = spawned
    /\ UNCHANGED <<cmd, events, env, fsys, dvars, xvars, yvars>>

\* one line of ffmpeg's stdout: the loop body of ffmpeg.rs 178-186.  ffmpeg has
\* opened its output by the time it reports progress, so the .wav exists.
FfmpegLine ==
    /\ pc = "ffmpeg_read"
    /\ run.ffLines < MaxLines
    /\ fsys' = [fsys EXCEPT !.wav = TRUE]
    /\ \/ \E time_us \in OutTimes :
            LET progress == ExtractProgress(time_us, run.duration)
            IN /\ run' = [run EXCEPT !.ffLines = @ + 1,
                                     !.cb = Append(@, [fn |-> "extract", p |-> progress])]
               /\ events' = emit_progress(events, "extracting",
                                          ExtractingPercent(progress))
       \/ \* a line that is no out_time_ms= line
          /\ run' = [run EXCEPT !.ffLines = @ + 1]
          /\ events' = events
    /\ UNCHANGED <<cmd, pc, ret, env, procs, spawned, dvars, xvars, yvars>>

\* ffmpeg's stdout ends (or a read fails): the loop of ffmpeg.rs 178 is left and
\* child.wait() is awaited (ffmpeg.rs 189)
FfmpegEof ==
    /\ pc = "ffmpeg_read"
    /\ pc' = "ffmpeg_wait"
    /\ UNCHANGED <<cmd, ret, events, env, fsys, procs, spawned, run, dvars, xvars, yvars>>

\* mutant of TranscribeEnter: the is_model_installed test is left out
TranscribeEnter_NoModelCheck(evs, pr, rn) ==
    /\ events' = evs
    /\ run' = [rn EXCEPT !.transcribeCalled = TRUE,
                         !.attempts.whisper = IF env.whisper THEN @ + 1 ELSE @]
    /\ IF ~env.whisper
       THEN /\ Return(Err("Whisper", "whisper.cpp not found"))
            /\ procs' = pr
            /\ spawned' = spawned
       ELSE /\ procs' = [pr EXCEPT !.whisper = "running"]
            /\ spawned' = [spawned EXCEPT !.whisper = @ + 1]
            /\ pc' = "whisper_read"
            /\ ret' = ret

\* WhisperService::new (whisper.rs 35-45) and WhisperService::transcribe up to
\* the first read of the engine's stderr (whisper.rs 130-167), with evs the
\* events emitted so far and pr the child processes so far
TranscribeEnter(evs, pr, rn) ==
    /\ events' = evs
    /\ run' = [rn EXCEPT !.transcribeCalled = TRUE,
                         !.attempts.whisper =
                            IF env.whisper /\ is_model_installed(rn.model_id)
                            THEN @ + 1 ELSE @]
    /\ IF ~env.whisper
       THEN /\ Return(Err("Whisper", "whisper.cpp not found"))
            /\ procs' = pr
            /\ spawned' = spawned
       ELSE IF ~is_model_installed(rn.model_id)
       THEN /\ Return(Err("ModelNotFound", rn.model_id))
            /\ procs' = pr
            /\ spawned' = spawned
       ELSE /\ procs' = [pr EXCEPT !.whisper = "running"]
            /\ spawned' = [spawned EXCEPT !.whisper = @ + 1]
            /\ pc' = "whisper_read"
            /\ ret' = ret

\* mutant of FfmpegExit: the exit status is not looked at
FfmpegExit_IgnoreStatus ==
    /\ pc = "ffmpeg_wait"
    /\ \E status \in {0, 1} :
        /\ fsys' = [fsys EXCEPT !.wav = @ \/ status = 0]
        /\ TranscribeEnter(
                emit_progress(
                    emit_progress(
                        emit_progress(events, "extracting", ExtractingPercent(1000)),
                        "extracting", 3000),
                    "transcribing", 3000),
                [procs EXCEPT !.ffmpeg = "exited"],
                [run EXCEPT !.ffStatus = Some(status),
                            !.cb = Append(@, [fn |-> "extract", p |-> 1000])])
    /\ UNCHANGED <<cmd, env, dvars, xvars, yvars>>

\* mutant of FfmpegExit: on_progress(100) is called before the exit status is
\* looked at
FfmpegExit_ProgressFirst ==
    /\ pc = "ffmpeg_wait"
    /\ \E status \in {0, 1} :
        IF status = 0
        THEN /\ fsys' = [fsys EXCEPT !.wav = TRUE]
             /\ TranscribeEnter(
                    emit_progress(
                        emit_progress(
                            emit_progress(events, "extracting", ExtractingPercent(1000)),
                            "extracting", 3000),
                        "transcribing", 3000),
                    [procs EXCEPT !.ffmpeg = "exited"],
                    [run EXCEPT !.ffStatus = Some(status),
                                !.cb = Append(@, [fn |-> "extract", p |-> 1000])])
        ELSE /\ Return(Err("FFmpeg", "Audio extraction failed"))
             /\ procs' = [procs EXCEPT !.ffmpeg = "exited"]
             /\ run' = [run EXCEPT !.ffStatus = Some(status),
                                   !.cb = Append(@, [fn |-> "extract", p |-> 1000])]
             /\ events' = emit_progress(events, "extracting", ExtractingPercent(1000))
             /\ UNCHANGED <<fsys, spawned>>
    /\ UNCHANGED <<cmd, env, dvars, xvars, yvars>>

\* mutant of FfmpegExit: a failed extraction is tried a second time
FfmpegExit_Retry ==
    /\ pc = "ffmpeg_wait"
    /\ \E status \in {0, 1} :
        IF status = 0
        THEN /\ fsys' = [fsys EXCEPT !.wav = TRUE]
             /\ TranscribeEnter(
                    emit_progress(
                        emit_progress(
                            emit_progress(events, "extracting", ExtractingPercent(1000)),
                            "extracting", 3000),
                        "transcribing", 3000),
                    [procs EXCEPT !.ffmpeg = "exited"],
                    [run EXCEPT !.ffStatus = Some(status),
                                !.cb = Append(@, [fn |-> "extract", p |-> 1000])])
        ELSE IF spawned.ffmpeg < 2
        THEN /\ procs' = [procs EXCEPT !.ffmpeg = "running"]
             /\ spawned' = [spawned EXCEPT !.ffmpeg = @ + 1]
             /\ run' = [run EXCEPT !.ffLines = 0]
             /\ pc' = "ffmpeg_read"
             /\ UNCHANGED <<ret, fsys, events>>
        ELSE /\ Return(Err("FFmpeg", "Audio extraction failed"))
             /\ procs' = [procs EXCEPT !.ffmpeg = "exited"]
             /\ run' = [run EXCEPT !.ffStatus = Some(status)]
             /\ UNCHANGED <<fsys, events, spawned>>
    /\ UNCHANGED <<cmd, env, dvars, xvars, yvars>>

\* ffmpeg has exited: ffmpeg.rs 189-197, then transcribe.rs 44-55 and on into
\* WhisperService::transcribe
FfmpegExit ==
    /\ pc = "ffmpeg_wait"
    /\ \E status \in {0, 1} :
        IF status = 0
        THEN /\ fsys' = [fsys EXCEPT !.wav = TRUE]
             /\ TranscribeEnter(
                    emit_progress(
                        emit_progress(
                            emit_progress(events, "extracting", ExtractingPercent(1000)),
                            "extracting", 3000),
                        "transcribing", 3000),
                    [procs EXCEPT !.ffmpeg = "exited"],
                    [run EXCEPT !.ffStatus = Some(status),
                                !.cb = Append(@, [fn |-> "extract", p |-> 1000])])
        ELSE /\ Return(Err("FFmpeg", "Audio extraction failed"))
             /\ procs' = [procs EXCEPT !.ffmpeg = "exited"]
             /\ run' = [run EXCEPT !.ffStatus = Some(status)]
             /\ UNCHANGED <<fsys, events, spawned>>
    /\ UNCHANGED <<cmd, env, dvars, xvars, yvars>>

\* transcribe_audio from its entry into WhisperService::transcribe
\* (transcribe.rs 80-94)
StartAudio ==
    /\ cmd = "transcribe_audio" /\ pc = "start"
    /\ TranscribeEnter(emit_progress(events, "transcribing", 0), procs, run)
    /\ UNCHANGED <<cmd, env, fsys, dvars, xvars, yvars>>

\* one line of the engine's stderr: the loop body of whisper.rs 167-176
WhisperLine ==
    /\ pc = "whisper_read"
    /\ run.whLines < MaxLines
    /\ \/ \E percent \in EnginePercents :
            /\ run' = [run EXCEPT !.whLines = @ + 1,
                                  !.cb = Append(@, [fn |-> "transcribe", p |-> percent])]
            /\ events' = emit_progress(events, "transcribing",
                                       TranscribingPercent(cmd, percent))
       \/ \* a line without a progress value
          /\ run' = [run EXCEPT !.whLines = @ + 1]
          /\ events' = events
    /\ UNCHANGED <<cmd, pc, ret, env, fsys, procs, spawned, dvars, xvars, yvars>>

\* the engine's stderr ends: child.wait() is awaited (whisper.rs 179)
WhisperEof ==
    /\ pc = "whisper_read"
    /\ pc' = "whisper_wait"
    /\ UNCHANGED <<cmd, ret, events, env, fsys, procs, spawned, run, dvars, xvars, yvars>>

\* the engine has exited: whisper.rs 179-189, then parse_whisper_output up to
\* the await of read_to_string (whisper.rs 194)
WhisperExit ==
    /\ pc = "whisper_wait"
    /\ procs' = [procs EXCEPT !.whisper = "exited"]
    /\ \E status \in {0, 1} :
        IF status = 0
        THEN /\ \E f \in EngineFiles :
                    fsys' = [fsys EXCEPT !.json = IF IsSome(f) THEN f ELSE @]
             /\ run' = [run EXCEPT !.whStatus = Some(status),
                                   !.cb = Append(@, [fn |-> "transcribe", p |-> 1000])]
             /\ events' = emit_progress(events, "transcribing",
                                        TranscribingPercent(cmd, 1000))
             /\ pc' = "read_json"
             /\ ret' = ret
        ELSE /\ Return(Err("Whisper", "Transcription failed"))
             /\ run' = [run EXCEPT !.whStatus = Some(status)]
             /\ UNCHANGED <<fsys, events>>
    /\ UNCHANGED <<cmd, env, spawned, dvars, xvars, yvars>>

\* read_to_string has finished: whisper.rs 194-259 up to the await of remove_file
ReadJsonDone ==
    /\ pc = "read_json"
    /\ IF ~IsSome(fsys.json)
       THEN /\ Return(Err("Io", "read_to_string"))
            /\ run' = run
       ELSE IF Unwrap(fsys.json).kind # "json"
       THEN /\ Return(Err("Json", "invalid"))
            /\ run' = run
       ELSE /\ run' = [run EXCEPT !.doc = Some(Unwrap(fsys.json).doc),
                                  !.result = Some(ParseDocument(Unwrap(fsys.json).doc))]
            /\ pc' = "rm_json"
            /\ ret' = ret
    /\ UNCHANGED <<cmd, events, env, fsys, procs, spawned, dvars, xvars, yvars>>

\* mutant of RmJsonDone: transcribe_media emits its complete event before the
\* removal of the temporary waveform
RmJsonDone_CompleteEarly ==
    /\ pc = "rm_json"
    /\ \E removed \in BOOLEAN :
        fsys' = [fsys EXCEPT !.json = IF removed THEN None ELSE @]
    /\ events' = emit_progress(events, "complete", 10000)
    /\ IF cmd = "transcribe_media"
       THEN /\ pc' = "rm_wav"
            /\ ret' = ret
       ELSE Return(Ok(Unwrap(run.result)))
    /\ run' = [run EXCEPT !.rmJson = TRUE]
    /\ UNCHANGED <<cmd, env, procs, spawned, dvars, xvars, yvars>>

\* remove_file(json_path) has finished (its error is dropped): whisper.rs
\* 259-266; transcribe returns Ok.  transcribe_media goes on to the await of its
\* own remove_file (transcribe.rs 68-71), transcribe_audio to its end
\* (transcribe.rs 106-110)
RmJsonDone ==
    /\ pc = "rm_json"
    /\ \E removed \in BOOLEAN :
        fsys' = [fsys EXCEPT !.json = IF removed THEN None ELSE @]
    /\ IF cmd = "transcribe_media"
       THEN /\ pc' = "rm_wav"
            /\ UNCHANGED <<ret, events>>
       ELSE /\ events' = emit_progress(events, "complete", 10000)
            /\ Return(Ok(Unwrap(run.result)))
    /\ run' = [run EXCEPT !.rmJson = TRUE]
    /\ UNCHANGED <<cmd, env, procs, spawned, dvars, xvars, yvars>>

\* remove_file(audio_path) has finished (its error is dropped): transcribe.rs 71-75
RmWavDone ==
    /\ pc = "rm_wav"
    /\ \E removed \in BOOLEAN :
        fsys' = [fsys EXCEPT !.wav = IF removed THEN FALSE ELSE @]
    /\ run' = [run EXCEPT !.cleanup = TRUE]
    /\ events' = emit_progress(events, "complete", 10000)
    /\ Return(Ok(Unwrap(run.result)))
    /\ UNCHANGED <<cmd, env, procs, spawned, dvars, xvars, yvars>>

\* The caller drops the command's future while it is suspended.  Nothing of the
\* function runs any more; no Command sets kill_on_drop, so a child process that
\* is running keeps running (ffmpeg.rs 156-171, 203-211, 228-237; whisper.rs
\* 142-160).
Cancel ==
    /\ pc \in AwaitPcs
    /\ pc' = "cancelled"
    /\ run' = [run EXCEPT !.cancelledAt = pc]
    /\ UNCHANGED <<cmd, ret, events, env, fsys, procs, spawned, dvars, xvars, yvars>>

\* a child process left behind by a cancelled run exits on its own; ffmpeg may
\* have written its output file by then
OrphanExit ==
    /\ pc = "cancelled"
    /\ \E b \in {"ffprobe", "ffmpeg", "whisper"} :
        /\ procs[b] = "running"
        /\ procs' = [procs EXCEPT ![b] = "exited"]
        /\ IF b = "ffmpeg"
           THEN \E written \in BOOLEAN :
                    fsys' = [fsys EXCEPT !.wav = @ \/ written]
           ELSE fsys' = fsys
    /\ UNCHANGED <<cmd, pc, ret, events, env, spawned, run, dvars, xvars, yvars>>

NextPipeline ==
    \/ Start \/ ProbeDone \/ MkdirDone \/ DurationDone
    \/ FfmpegLine \/ FfmpegEof \/ FfmpegExit
    \/ StartAudio \/ WhisperLine \/ WhisperEof \/ WhisperExit
    \/ ReadJsonDone \/ RmJsonDone \/ RmWavDone
    \/ Cancel \/ OrphanExit

SpecPipeline == InitPipeline /\ [][NextPipeline]_vars

(***************************************************************************)
(* DownloadService (services/download.rs).                                 *)
(***************************************************************************)
\* lengths of the chunks a response body can be cut into
ChunkLens == {1, 2}

\* the bodies a server can send: up to MaxChunks chunks
Bodies == UNION {[1..n -> ChunkLens] : n \in 0..MaxChunks}

RECURSIVE Sum(_)
Sum(s) == IF s = <<>> THEN 0 ELSE Head(s) + Sum(Tail(s))

\* WhisperModel.size_bytes, download.rs 22-97, in units of 1000 bytes (as are
\* the chunk lengths)
size_bytes(model_id) ==
    CASE model_id = "tiny" -> 77700
      [] model_id = "base" -> 148000
      [] model_id = "small" -> 488000
      [] model_id = "medium" -> 1530000
      [] model_id = "large-v1" -> 3090000
      [] model_id = "large-v2" -> 3090000
      [] model_id = "large-v3" -> 3100000
      [] model_id = "large-v3-turbo" -> 1620000

\* the await points a download_model call can be suspended at
DlAwaitPcs == {"d_mkdir", "d_send", "d_create", "d_stream", "d_write", "d_flush",
               "d_rename"}

InitDownload ==
    /\ cmd = "transcribe_media"
    /\ pc = "start"
    /\ ret = Pending
    /\ events = <<>>
    /\ env = [ffprobe |-> TRUE, ffmpeg |-> TRUE, whisper |-> TRUE]
    /\ fsys = [tempDir |-> FALSE, wav |-> FALSE, json |-> None]
    /\ procs = NoProcs
    /\ spawned = [ffprobe |-> 0, ffmpeg |-> 0, whisper |-> 0]
    /\ run = RunStart
    /\ dpc = "idle"
    /\ dl = DlIdle
    /\ files \in {NoFiles,
                  [NoFiles EXCEPT ![ModelId] = Some(FileContent(0, 200, <<1>>, <<1>>))]}
    /\ tmpf = NoFiles
    /\ dcall = NoCall
    /\ modelsDir \in BOOLEAN
    /\ parse = Off /\ inst = Off /\ loc = Off /\ conc = Off /\ lst = Off
    /\ KeychainOff /\ DeletesOff /\ WatcherOff

\* the call returns r
DlReturn(r) ==
    /\ dpc' = "idle"
    /\ dcall' = [dcall EXCEPT !.ret = r]

\* download_model is called: download.rs 165-173 up to the await inside
\* ensure_models_directory (download.rs 126-129)
DownloadCall ==
    /\ dpc = "idle"
    /\ dcall.n < MaxCalls
    /\ \E m \in RequestIds :
        /\ dl' = [DlIdle EXCEPT !.model_id = m]
        /\ dcall' = [NoCall EXCEPT !.n = dcall.n + 1, !.op = "download_model",
                                   !.model_id = m,
                                   !.wasInstalled = is_model_installed(m),
                                   !.prev = AsPrev(dcall)]
    /\ dpc' = "d_mkdir"
    /\ UNCHANGED <<files, tmpf, modelsDir, pvars, xvars, yvars>>

\* mutant of DlMkdirDone: the request is sent without the catalog lookup
DlMkdirDone_NoLookup ==
    /\ dpc = "d_mkdir"
    /\ \E ok \in BOOLEAN :
        IF ~ok /\ ~modelsDir
        THEN /\ DlReturn(Err("Io", "create_dir_all"))
             /\ modelsDir' = modelsDir
        ELSE /\ modelsDir' = TRUE
             /\ dpc' = "d_send"
             /\ dcall' = [dcall EXCEPT !.requests = @ + 1]
    /\ UNCHANGED <<dl, files, tmpf, pvars, xvars, yvars>>

\* create_dir_all has finished: download.rs 173-188 up to the await of send()
DlMkdirDone ==
    /\ dpc = "d_mkdir"
    /\ \E ok \in BOOLEAN :
        IF ~ok /\ ~modelsDir
        THEN /\ DlReturn(Err("Io", "create_dir_all"))
             /\ modelsDir' = modelsDir
        ELSE /\ modelsDir' = TRUE
             /\ IF dl.model_id \notin Catalog
                THEN DlReturn(Err("ModelNotFound", dl.model_id))
                ELSE /\ dpc' = "d_send"
                     /\ dcall' = [dcall EXCEPT !.requests = @ + 1]
    /\ UNCHANGED <<dl, files, tmpf, pvars, xvars, yvars>>

\* send() has finished: download.rs 185-194 up to the await of File::create.
\* The response's status is not looked at.
DlSendDone ==
    /\ dpc = "d_send"
    /\ \/ /\ DlReturn(Err("Network", "send"))
          /\ dl' = dl
       \/ \E status \in {200, 404}, body \in Bodies, content_length \in BOOLEAN :
            /\ dl' = [dl EXCEPT !.status = status,
                                !.body = body,
                                !.total_size = IF content_length THEN Sum(body)
                                               ELSE size_bytes(dl.model_id),
                                !.downloaded = 0,
                                !.next = 1]
            /\ dpc' = "d_create"
            /\ dcall' = dcall
    /\ UNCHANGED <<files, tmpf, modelsDir, pvars, xvars, yvars>>

\* mutant of DlCreateDone: an existing temporary file is opened for appending
DlCreateDone_Append ==
    /\ dpc = "d_create"
    /\ \E ok \in BOOLEAN :
        IF ok
        THEN /\ tmpf' = [tmpf EXCEPT ![dl.model_id] =
                            IF IsSome(@)
                            THEN Some([Unwrap(@) EXCEPT !.call = dcall.n, !.status = dl.status,
                                                        !.of = dl.body])
                            ELSE Some(FileContent(dcall.n, dl.status, <<>>, dl.body))]
             /\ dpc' = "d_stream"
             /\ dcall' = dcall
        ELSE /\ DlReturn(Err("Io", "create"))
             /\ tmpf' = tmpf
    /\ UNCHANGED <<dl, files, modelsDir, pvars, xvars, yvars>>

\* File::create(&temp_path) has finished: download.rs 194-197 up to the await
\* of stream.next().  An existing temporary file is truncated.
DlCreateDone ==
    /\ dpc = "d_create"
    /\ \E ok \in BOOLEAN :
        IF ok
        THEN /\ tmpf' = [tmpf EXCEPT ![dl.model_id] =
                            Some(FileContent(dcall.n, dl.status, <<>>, dl.body))]
             /\ dpc' = "d_stream"
             /\ dcall' = dcall
        ELSE /\ DlReturn(Err("Io", "create"))
             /\ tmpf' = tmpf
    /\ UNCHANGED <<dl, files, modelsDir, pvars, xvars, yvars>>

\* stream.next() yields a chunk: download.rs 197-199 up to the await of write_all
DlChunk ==
    /\ dpc = "d_stream"
    /\ dl.next <= Len(dl.body)
    /\ dpc' = "d_write"
    /\ UNCHANGED <<dl, dcall, files, tmpf, modelsDir, pvars, xvars, yvars>>

\* mutant of DlStreamError: a stream error ends the loop like the end of the
\* stream (while let Some(Ok(chunk)) = ...)
DlStreamError_AsEnd ==
    /\ dpc = "d_stream"
    /\ dl.next <= Len(dl.body)
    /\ dpc' = "d_flush"
    /\ UNCHANGED <<dl, dcall, files, tmpf, modelsDir, pvars, xvars, yvars>>

\* mutant of DlStreamError: the failed download removes the canonical file
DlStreamError_RemoveFile ==
    /\ dpc = "d_stream"
    /\ dl.next <= Len(dl.body)
    /\ DlReturn(Err("Download", "stream"))
    /\ files' = [files EXCEPT ![dl.model_id] = None]
    /\ UNCHANGED <<dl, tmpf, modelsDir, pvars, xvars, yvars>>

\* stream.next() yields an error before the body is complete: download.rs 198
DlStreamError ==
    /\ dpc = "d_stream"
    /\ dl.next <= Len(dl.body)
    /\ DlReturn(Err("Download", "stream"))
    /\ UNCHANGED <<dl, files, tmpf, modelsDir, pvars, xvars, yvars>>

\* mutant of DlWriteDone: downloaded is the length of the chunk, not the sum
DlWriteDone_ChunkLen ==
    /\ dpc = "d_write"
    /\ \E ok \in BOOLEAN :
        IF ok
        THEN LET chunk == dl.body[dl.next]
                 downloaded == dl.downloaded + chunk
                 progress == [downloaded |-> chunk,
                              total |-> dl.total_size,
                              percent |-> (chunk * 100) \div dl.total_size,
                              model_id |-> dl.model_id]
             IN /\ tmpf' = [tmpf EXCEPT ![dl.model_id] =
                                Some([Unwrap(@) EXCEPT !.bytes = Append(@, chunk)])]
                /\ dl' = [dl EXCEPT !.downloaded = downloaded, !.next = @ + 1]
                /\ dcall' = [dcall EXCEPT !.progress = Append(@, progress)]
                /\ dpc' = "d_stream"
        ELSE /\ DlReturn(Err("Io", "write_all"))
             /\ UNCHANGED <<tmpf, dl>>
    /\ UNCHANGED <<files, modelsDir, pvars, xvars, yvars>>

\* write_all has finished: download.rs 199-209, back to the await of stream.next()
DlWriteDone ==
    /\ dpc = "d_write"
    /\ \E ok \in BOOLEAN :
        IF ok
        THEN LET chunk == dl.body[dl.next]
                 downloaded == dl.downloaded + chunk
                 progress == [downloaded |-> downloaded,
                              total |-> dl.total_size,
                              percent |-> (downloaded * 100) \div dl.total_size,
                              model_id |-> dl.model_id]
             IN /\ tmpf' = [tmpf EXCEPT ![dl.model_id] =
                                Some([Unwrap(@) EXCEPT !.bytes = Append(@, chunk)])]
                /\ dl' = [dl EXCEPT !.downloaded = downloaded, !.next = @ + 1]
                /\ dcall' = [dcall EXCEPT !.progress = Append(@, progress)]
                /\ dpc' = "d_stream"
        ELSE /\ DlReturn(Err("Io", "write_all"))
             /\ UNCHANGED <<tmpf, dl>>
    /\ UNCHANGED <<files, modelsDir, pvars, xvars, yvars>>

\* stream.next() yields None: download.rs 197, 211 up to the await of flush
DlStreamEnd ==
    /\ dpc = "d_stream"
    /\ dl.next > Len(dl.body)
    /\ dpc' = "d_flush"
    /\ UNCHANGED <<dl, dcall, files, tmpf, modelsDir, pvars, xvars, yvars>>

\* flush has finished: download.rs 211-215 up to the await of rename
DlFlushDone ==
    /\ dpc = "d_flush"
    /\ \E ok \in BOOLEAN :
        IF ok
        THEN /\ dpc' = "d_rename"
             /\ dcall' = dcall
        ELSE DlReturn(Err("Io", "flush"))
    /\ UNCHANGED <<dl, files, tmpf, modelsDir, pvars, xvars, yvars>>

\* rename has finished: download.rs 215-217
DlRenameDone ==
    /\ dpc = "d_rename"
    /\ \E ok \in BOOLEAN :
        IF ok
        THEN /\ files' = [files EXCEPT ![dl.model_id] = tmpf[dl.model_id]]
             /\ tmpf' = [tmpf EXCEPT ![dl.model_id] = None]
             /\ DlReturn(Ok(dl.model_id))
        ELSE /\ DlReturn(Err("Io", "rename"))
             /\ UNCHANGED <<files, tmpf>>
    /\ UNCHANGED <<dl, modelsDir, pvars, xvars, yvars>>

\* the caller drops the future of download_model while it is suspended; nothing
\* of the function runs any more
DlCancel ==
    /\ dpc \in DlAwaitPcs
    /\ dpc' = "idle"
    /\ dcall' = [dcall EXCEPT !.cancelled = TRUE]
    /\ UNCHANGED <<dl, files, tmpf, modelsDir, pvars, xvars, yvars>>

\* mutant of delete_model: an absent file is an error
delete_model_Strict ==
    /\ dpc = "idle"
    /\ dcall.n < MaxCalls
    /\ \E m \in RequestIds :
        /\ dl' = [DlIdle EXCEPT !.model_id = m]
        /\ \E ok \in BOOLEAN :
            LET call == [NoCall EXCEPT !.n = dcall.n + 1, !.op = "delete_model",
                                       !.model_id = m,
                                       !.wasInstalled = is_model_installed(m),
                                       !.prev = AsPrev(dcall)]
            IN IF is_model_installed(m) /\ ok
               THEN /\ files' = [files EXCEPT ![m] = None]
                    /\ dcall' = [call EXCEPT !.ret = Ok("")]
               ELSE /\ files' = files
                    /\ dcall' = [call EXCEPT !.ret = Err("Io", "remove_file")]
    /\ UNCHANGED <<dpc, tmpf, modelsDir, pvars, xvars, yvars>>

\* DownloadService::delete_model, download.rs 221-227
delete_model ==
    /\ dpc = "idle"
    /\ dcall.n < MaxCalls
    /\ \E m \in RequestIds :
        /\ dl' = [DlIdle EXCEPT !.model_id = m]
        /\ \E ok \in BOOLEAN :
            LET call == [NoCall EXCEPT !.n = dcall.n + 1, !.op = "delete_model",
                                       !.model_id = m,
                                       !.wasInstalled = is_model_installed(m),
                                       !.prev = AsPrev(dcall)]
            IN IF is_model_installed(m)
               THEN IF ok
                    THEN /\ files' = [files EXCEPT ![m] = None]
                         /\ dcall' = [call EXCEPT !.ret = Ok("")]
                    ELSE /\ files' = files
                         /\ dcall' = [call EXCEPT !.ret = Err("Io", "remove_file")]
               ELSE /\ files' = files
                    /\ dcall' = [call EXCEPT !.ret = Ok("")]
    /\ UNCHANGED <<dpc, tmpf, modelsDir, pvars, xvars, yvars>>

NextDownload ==
    \/ DownloadCall \/ DlMkdirDone \/ DlSendDone \/ DlCreateDone
    \/ DlChunk \/ DlStreamError \/ DlWriteDone \/ DlStreamEnd
    \/ DlFlushDone \/ DlRenameDone \/ DlCancel
    \/ delete_model

SpecDownload == InitDownload /\ [][NextDownload]_vars

(***************************************************************************)
(* The parts of the state a specification that does not run them pins.     *)
(***************************************************************************)
PipelineIdle ==
    /\ cmd = "transcribe_media"
    /\ pc = "start"
    /\ ret = Pending
    /\ events = <<>>
    /\ env = [ffprobe |-> TRUE, ffmpeg |-> TRUE, whisper |-> TRUE]
    /\ fsys = [tempDir |-> FALSE, wav |-> FALSE, json |-> None]
    /\ procs = NoProcs
    /\ spawned = [ffprobe |-> 0, ffmpeg |-> 0, whisper |-> 0]
    /\ run = RunStart

DownloadIdle ==
    /\ dpc = "idle"
    /\ dl = DlIdle
    /\ files = NoFiles
    /\ tmpf = NoFiles
    /\ dcall = NoCall
    /\ modelsDir = TRUE

(***************************************************************************)
(* Segment times: the start and end parse_whisper_output computes for one  *)
(* JSON segment (whisper.rs 206-231), in milliseconds (SegTime) and at     *)
(* full f64 precision (SegTimeF64).  parse.meant is a ghost: the time the  *)
(* formatted field was written from, None for a field that is absent or    *)
(* not a timestamp.                                                        *)
(***************************************************************************)
ParseTimes == {0, 1500, 61029, 83456}
Separators == {",", "."}
NotATimestamp == <<"1", ":", "2", "3">>

FormattedInputs ==
    {[text |-> None, ms |-> None], [text |-> Some(NotATimestamp), ms |-> None]}
        \cup {[text |-> Some(EngineTimestamp(ms, sep)), ms |-> Some(ms)] :
                  ms \in ParseTimes, sep \in Separators}

OffsetInputs == {None} \cup {Some(ms) : ms \in ParseTimes}

\* the end of the segment: absent, formatted only, offset only, or both
EndInputs ==
    {[f |-> [text |-> None, ms |-> None], o |-> None],
     [f |-> [text |-> Some(EngineTimestamp(83456, ".")), ms |-> Some(83456)], o |-> None],
     [f |-> [text |-> None, ms |-> None], o |-> Some(61029)],
     [f |-> [text |-> Some(EngineTimestamp(61029, ",")), ms |-> Some(61029)],
      o |-> Some(83456)]}

\* the JSON segment with the given formatted fields and offsets
ParseSegmentOf(ff, ft, of, ot) ==
    [timestamps |-> IF IsSome(ff.text) \/ IsSome(ft.text)
                    THEN Some([from |-> ff.text, to |-> ft.text]) ELSE None,
     offsets |-> IF IsSome(of) \/ IsSome(ot)
                 THEN Some([from |-> of, to |-> ot]) ELSE None,
     text |-> Some(TextHello)]

InitParse ==
    /\ PipelineIdle
    /\ DownloadIdle
    /\ \E ff \in FormattedInputs, of \in OffsetInputs, to \in EndInputs :
            parse = [pc |-> "in",
                     segment |-> ParseSegmentOf(ff, to.f, of, to.o),
                     meant |-> [from |-> ff.ms, to |-> to.f.ms],
                     start |-> 0, end |-> 0,
                     startF |-> F64Zero, endF |-> F64Zero]
    /\ inst = Off /\ loc = Off /\ conc = Off /\ lst = Off
    /\ KeychainOff /\ DeletesOff /\ WatcherOff

\* start and end of the segment, whisper.rs 207-231
ParseSegmentTimes ==
    /\ parse.pc = "in"
    /\ parse' = [parse EXCEPT !.pc = "out",
                              !.start = SegTime(parse.segment, "from"),
                              !.end = SegTime(parse.segment, "to"),
                              !.startF = SegTimeF64(parse.segment, "from"),
                              !.endF = SegTimeF64(parse.segment, "to")]
    /\ UNCHANGED <<pvars, dvars, inst, loc, conc, lst, yvars>>

NextParse == ParseSegmentTimes

SpecParse == InitParse /\ [][NextParse]_vars

(***************************************************************************)
(* WhisperService::install_whisper_cpp (whisper.rs 292-483), one call, cut *)
(* at its await points.  Sizes are in units of 10,000,000 bytes, percents  *)
(* in tenths.  inst.bin_dir and inst.zip say whether the bin directory and  *)
(* whisper-cpp.zip exist, inst.binary whether the engine binary in the bin *)
(* directory is "absent", "partial" or "complete"; the ghosts              *)
(* inst.requests, inst.made and inst.cb record the HTTP requests sent, the *)
(* directory and files the call created and the on_progress calls.         *)
(***************************************************************************)
Platforms == {"windows_x86_64", "windows_x86", "macos", "linux"}

\* the fallback total of whisper.rs 355, in units of 10,000,000 bytes
DefaultTotal == 5
\* the largest archive body the server sends, in the same units
MaxBody == 7
ChunkUnits == {1, 3}
ContentLengths == {None, Some(2), Some(4)}

MsgPreparing == "Preparing download..."
MsgDownloading == "Downloading whisper.cpp..."
MsgExtracting == "Extracting whisper.cpp..."
MsgCleaning == "Cleaning up..."
MsgComplete == "Installation complete!"

\* WhisperService::get_whisper_download_url
get_whisper_download_url(platform) ==
    CASE platform = "windows_x86_64" -> Ok("whisper-bin-x64.zip")
      [] platform = "windows_x86" -> Ok("whisper-bin-Win32.zip")
      [] platform = "macos" -> Err("Whisper", "macOS requires manual installation")
      [] OTHER -> Err("Whisper", "Unsupported platform for whisper.cpp installation")

InitInstall ==
    /\ PipelineIdle
    /\ DownloadIdle
    /\ parse = Off /\ loc = Off /\ conc = Off /\ lst = Off
    /\ KeychainOff /\ DeletesOff /\ WatcherOff
    /\ \E platform \in Platforms, data_dir \in BOOLEAN, bin_dir \in BOOLEAN :
        \E had_binary \in (IF bin_dir THEN BOOLEAN ELSE {FALSE}) :
          inst = [pc |-> "i_start", platform |-> platform, data_dir |-> data_dir,
                  bin_dir |-> bin_dir, zip |-> FALSE,
                  binary |-> IF had_binary THEN "complete" ELSE "absent",
                  had_binary |-> had_binary,
                  content_length |-> None, total_size |-> 0, downloaded |-> 0,
                  chunk |-> 0,
                  requests |-> 0, made |-> {}, cb |-> <<>>, ret |-> Pending]

on_progress_inst(i, p, msg) == [i EXCEPT !.cb = Append(@, [p |-> p, msg |-> msg])]

InstReturn(i, r) == [i EXCEPT !.pc = "i_done", !.ret = r]

\* mutant of InstallCall: on_progress(0) is called before the platform is looked at
InstallCall_ProgressFirst ==
    /\ inst.pc = "i_start"
    /\ LET url == get_whisper_download_url(inst.platform)
           i1 == on_progress_inst(inst, 0, MsgPreparing)
       IN inst' = IF url.tag = "Err" THEN InstReturn(i1, url)
                  ELSE IF ~inst.data_dir
                  THEN InstReturn(i1, Err("InvalidPath", "Cannot find data directory"))
                  ELSE [i1 EXCEPT !.pc = "i_mkdir"]
    /\ UNCHANGED <<pvars, dvars, parse, loc, conc, lst, yvars>>

\* whisper.rs 297-325: the URL for the platform, on_progress(0), the bin directory
InstallCall ==
    /\ inst.pc = "i_start"
    /\ LET url == get_whisper_download_url(inst.platform)
       IN inst' = IF url.tag = "Err" THEN InstReturn(inst, url)
                  ELSE LET i1 == on_progress_inst(inst, 0, MsgPreparing)
                       IN IF ~inst.data_dir
                          THEN InstReturn(i1, Err("InvalidPath", "Cannot find data directory"))
                          ELSE [i1 EXCEPT !.pc = "i_mkdir"]
    /\ UNCHANGED <<pvars, dvars, parse, loc, conc, lst, yvars>>

\* whisper.rs 327-337: create_dir_all returns; on_progress(5) and the request
InstMkdirDone ==
    /\ inst.pc = "i_mkdir"
    /\ \E ok \in BOOLEAN :
          inst' = IF ~ok /\ ~inst.bin_dir THEN InstReturn(inst, Err("Io", "create_dir_all"))
                  ELSE LET i1 == [inst EXCEPT !.bin_dir = TRUE,
                                              !.made = IF inst.bin_dir THEN @ ELSE @ \cup {"bin_dir"}]
                           i2 == on_progress_inst(i1, 50, MsgDownloading)
                       IN [i2 EXCEPT !.pc = "i_send", !.requests = @ + 1]
    /\ UNCHANGED <<pvars, dvars, parse, loc, conc, lst, yvars>>

\* whisper.rs 339-369: send() returns; status, content length, File::create is called
InstSendDone ==
    /\ inst.pc = "i_send"
    /\ \E outcome \in {"error", "http_error", "success"}, content_length \in ContentLengths :
          inst' = CASE outcome = "error" ->
                         InstReturn(inst, Err("Download", "Failed to download whisper.cpp"))
                    [] outcome = "http_error" ->
                         InstReturn(inst, Err("Download", "Failed to download whisper.cpp: HTTP"))
                    [] OTHER ->
                         [inst EXCEPT !.pc = "i_create",
                                      !.content_length = content_length,
                                      !.total_size = IF IsSome(content_length)
                                                     THEN Unwrap(content_length)
                                                     ELSE DefaultTotal]
    /\ UNCHANGED <<pvars, dvars, parse, loc, conc, lst, yvars>>

\* whisper.rs 363-369: File::create(zip_path) returns
InstCreateDone ==
    /\ inst.pc = "i_create"
    /\ \E ok \in BOOLEAN :
          inst' = IF ~ok THEN InstReturn(inst, Err("Io", "File::create"))
                  ELSE [inst EXCEPT !.pc = "i_stream", !.zip = TRUE,
                                    !.made = @ \cup {"zip"}]
    /\ UNCHANGED <<pvars, dvars, parse, loc, conc, lst, yvars>>

\* whisper.rs 373-380: the stream yields a chunk; write_all is called
InstChunk ==
    /\ inst.pc = "i_stream"
    /\ \E n \in ChunkUnits :
          /\ inst.downloaded + n <= (IF IsSome(inst.content_length)
                                     THEN Unwrap(inst.content_length) ELSE MaxBody)
          /\ inst' = [inst EXCEPT !.pc = "i_write", !.chunk = n]
    /\ UNCHANGED <<pvars, dvars, parse, loc, conc, lst, yvars>>

\* whisper.rs 374-380: the stream yields an error
InstStreamError ==
    /\ inst.pc = "i_stream"
    /\ inst' = InstReturn(inst, Err("Download", "stream"))
    /\ UNCHANGED <<pvars, dvars, parse, loc, conc, lst, yvars>>

\* whisper.rs 382-390: write_all returns; downloaded, progress, on_progress
InstWriteDone ==
    /\ inst.pc = "i_write"
    /\ \E ok \in BOOLEAN :
          inst' = IF ~ok THEN InstReturn(inst, Err("Io", "write_all"))
                  ELSE LET downloaded == inst.downloaded + inst.chunk
                           progress == 50 + (downloaded * 700) \div inst.total_size
                           i1 == [inst EXCEPT !.downloaded = downloaded, !.pc = "i_stream"]
                       IN on_progress_inst(i1, progress, MsgDownloading)
    /\ UNCHANGED <<pvars, dvars, parse, loc, conc, lst, yvars>>

\* whisper.rs 373, 392: the stream ends (a body shorter than its announced
\* length is a stream error); flush is called
InstStreamEnd ==
    /\ inst.pc = "i_stream"
    /\ IsSome(inst.content_length) => inst.downloaded = Unwrap(inst.content_length)
    /\ inst' = [inst EXCEPT !.pc = "i_flush"]
    /\ UNCHANGED <<pvars, dvars, parse, loc, conc, lst, yvars>>

\* whisper.rs 392-410: flush returns; on_progress(75) and the extraction task
InstFlushDone ==
    /\ inst.pc = "i_flush"
    /\ \E ok \in BOOLEAN :
          inst' = IF ~ok THEN InstReturn(inst, Err("Io", "flush"))
                  ELSE [on_progress_inst(inst, 750, MsgExtracting) EXCEPT !.pc = "i_extract"]
    /\ UNCHANGED <<pvars, dvars, parse, loc, conc, lst, yvars>>

\* whisper.rs 410-441: the extraction task has found the binary in the archive
\* and created the target file, truncating one that was there; io::copy follows
InstExtractCreate ==
    /\ inst.pc = "i_extract"
    /\ inst' = [inst EXCEPT !.pc = "i_copy", !.binary = "partial",
                            !.made = @ \cup {"binary"}]
    /\ UNCHANGED <<pvars, dvars, parse, loc, conc, lst, yvars>>

\* whisper.rs 410-473: the extraction task returns; on_progress(95), remove_file
InstExtractDone ==
    /\ inst.pc \in {"i_extract", "i_copy"}
    /\ \E outcome \in (IF inst.pc = "i_extract"
                        THEN {"join_error", "io_error", "not_found"}
                        ELSE {"join_error", "copy_error", "permissions_error", "found"}) :
          inst' = CASE outcome = "join_error" ->
                         InstReturn(inst, Err("Whisper", "Extract task failed"))
                    [] outcome \in {"io_error", "copy_error"} ->
                         InstReturn(inst, Err("Whisper", "Failed to extract"))
                    [] outcome = "permissions_error" ->
                         InstReturn([inst EXCEPT !.binary = "complete"],
                                    Err("Whisper", "Failed to extract"))
                    [] outcome = "not_found" ->
                         InstReturn(inst, Err("Whisper", "Failed to extract: Binary not found in archive"))
                    [] OTHER ->
                         [on_progress_inst([inst EXCEPT !.binary = "complete"],
                                           950, MsgCleaning)
                            EXCEPT !.pc = "i_rmzip"]
    /\ UNCHANGED <<pvars, dvars, parse, loc, conc, lst, yvars>>

\* whisper.rs 475-482: remove_file returns, its result is dropped; on_progress(100)
InstRemoveZipDone ==
    /\ inst.pc = "i_rmzip"
    /\ \E ok \in BOOLEAN :
          inst' = InstReturn(on_progress_inst([inst EXCEPT !.zip = IF ok THEN FALSE ELSE @],
                                              1000, MsgComplete),
                             Ok("whisper-cpp"))
    /\ UNCHANGED <<pvars, dvars, parse, loc, conc, lst, yvars>>

NextInstall ==
    \/ InstallCall \/ InstMkdirDone \/ InstSendDone \/ InstCreateDone
    \/ InstChunk \/ InstStreamError \/ InstWriteDone \/ InstStreamEnd
    \/ InstFlushDone \/ InstExtractCreate \/ InstExtractDone \/ InstRemoveZipDone

SpecInstall == InitInstall /\ [][NextInstall]_vars

(***************************************************************************)
(* WhisperService::find_whisper_cpp (whisper.rs 48-112).  A path is        *)
(* [dir, name]: dir names the directory (the executable's own, the data    *)
(* directory's clip-flow/bin, %PROGRAMFILES%/whisper-cpp, the data         *)
(* directory's whisper-cpp, the two Homebrew bin directories, or the       *)
(* directory of the process search path holding the name), name is         *)
(* "binary" (whisper-cpp[.exe]), "cli" (whisper-cli[.exe]) or "main".      *)
(***************************************************************************)
LocPlatforms == {"windows", "macos", "linux"}

Path(dir, name) == [dir |-> dir, name |-> name]

\* which::which(name): the executable of that name on the process search path
which_which(name, exists) ==
    IF Path("search_path", name) \in exists THEN Some(Path("search_path", name)) ELSE None

\* possible_paths of whisper.rs 60-100
possible_paths(l) ==
    <<IF l.current_exe THEN Some(Path("exe_dir", "binary")) ELSE None,
      IF l.data_local_dir THEN Some(Path("clip-flow/bin", "binary")) ELSE None>>
    \o (IF l.platform = "windows"
        THEN (IF l.program_files
              THEN <<Some(Path("program_files/whisper-cpp", "cli")),
                     Some(Path("program_files/whisper-cpp", "binary"))>>
              ELSE <<>>)
             \o (IF l.data_local_dir
                 THEN <<Some(Path("local_app_data/whisper-cpp", "cli")),
                        Some(Path("local_app_data/whisper-cpp", "binary"))>>
                 ELSE <<>>)
        ELSE <<>>)
    \o (IF l.platform = "macos"
        THEN <<Some(Path("/opt/homebrew/bin", "cli")), Some(Path("/usr/local/bin", "cli")),
               Some(Path("/opt/homebrew/bin", "binary")), Some(Path("/usr/local/bin", "binary"))>>
        ELSE <<>>)
    \o <<which_which("cli", l.exists), which_which("binary", l.exists),
        which_which("main", l.exists)>>

\* Iterator::flatten on a sequence of Option
RECURSIVE FlattenOptions(_)
FlattenOptions(s) ==
    IF s = <<>> THEN <<>>
    ELSE Head(s) \o FlattenOptions(Tail(s))

\* the for loop of whisper.rs 102-107: the first path that exists
RECURSIVE FirstExisting(_, _)
FirstExisting(paths, exists) ==
    IF paths = <<>> THEN None
    ELSE IF Head(paths) \in exists THEN Some(Head(paths))
    ELSE FirstExisting(Tail(paths), exists)

\* mutant of find_whisper_cpp: the search path is looked at before the fixed paths
find_whisper_cpp_SearchPathFirst(l) ==
    LET paths == FlattenOptions(possible_paths(l))
        onPath == SelectSeq(paths, LAMBDA p : p.dir = "search_path")
        fixed == SelectSeq(paths, LAMBDA p : p.dir # "search_path")
    IN FirstExisting(onPath \o fixed, l.exists)

find_whisper_cpp(l) == FirstExisting(FlattenOptions(possible_paths(l)), l.exists)

\* the files a platform can hold at the paths the locator looks at
LocPaths(platform) ==
    {Path("exe_dir", "binary"), Path("clip-flow/bin", "binary"),
     Path("search_path", "cli"), Path("search_path", "binary"), Path("search_path", "main")}
    \cup (IF platform = "windows"
          THEN {Path(d, n) : d \in {"program_files/whisper-cpp", "local_app_data/whisper-cpp"},
                             n \in {"cli", "binary"}}
          ELSE {})
    \cup (IF platform = "macos"
          THEN {Path(d, n) : d \in {"/opt/homebrew/bin", "/usr/local/bin"},
                             n \in {"cli", "binary"}}
          ELSE {})

InitLocate ==
    /\ PipelineIdle
    /\ DownloadIdle
    /\ parse = Off /\ inst = Off /\ conc = Off /\ lst = Off
    /\ KeychainOff /\ DeletesOff /\ WatcherOff
    /\ \E platform \in LocPlatforms, current_exe \in BOOLEAN, data_local_dir \in BOOLEAN :
          \E program_files \in (IF platform = "windows" THEN BOOLEAN ELSE {FALSE}),
             exists \in SUBSET LocPaths(platform) :
              loc = [pc |-> "in", platform |-> platform, current_exe |-> current_exe,
                     data_local_dir |-> data_local_dir, program_files |-> program_files,
                     exists |-> exists, result |-> None]

\* one call of find_whisper_cpp, as WhisperService::new makes it
LocateCall ==
    /\ loc.pc = "in"
    /\ loc' = [loc EXCEPT !.pc = "out", !.result = find_whisper_cpp(loc)]
    /\ UNCHANGED <<pvars, dvars, parse, inst, conc, lst, yvars>>

NextLocate == LocateCall

SpecLocate == InitLocate /\ [][NextLocate]_vars

(***************************************************************************)
(* Temporary files of transcribe_media runs that are in progress at once   *)
(* (transcribe.rs 34-39, whisper.rs 138-149).  A file path is              *)
(* [dir, stem, ext].  Uuid::new_v4() is a random 122-bit value; it is      *)
(* modelled as a value no earlier call has returned.  conc.runs[r] is the  *)
(* run r, conc.used the identifiers handed out, conc.files the temporary   *)
(* files on disk.                                                          *)
(***************************************************************************)
MaxRuns == 2
Runs == 1..MaxRuns
Uuids == 1..(MaxRuns + 1)
InputFiles == {"talk.mp4", "talk.mov"}

FilePath(dir, stem, ext) == [dir |-> dir, stem |-> stem, ext |-> ext]

\* Path::with_extension
with_extension(path, ext) == [path EXCEPT !.ext = ext]

\* the file the engine writes for -oj -of <output_path without ".json">
EngineOutputFile(output_path) ==
    LET of == [dir |-> output_path.dir, stem |-> output_path.stem]
    IN FilePath(of.dir, of.stem, "json")

InitConcurrent ==
    /\ PipelineIdle
    /\ DownloadIdle
    /\ parse = Off /\ inst = Off /\ loc = Off /\ lst = Off
    /\ KeychainOff /\ DeletesOff /\ WatcherOff
    /\ \E inputs \in [Runs -> InputFiles] :
          conc = [pc |-> "on",
                  runs |-> [r \in Runs |-> [pc |-> "start", input |-> inputs[r],
                                            audio_path |-> None, output_path |-> None]],
                  used |-> {},
                  files |-> {}]

\* mutant of ConcExtractStart: the wav file is named after the input file
ConcExtractStart_InputStem ==
    /\ conc.pc = "on"
    /\ \E r \in Runs :
          /\ conc.runs[r].pc = "start"
          /\ LET audio_path == FilePath("clip-flow", conc.runs[r].input, "wav")
             IN conc' = [conc EXCEPT !.runs[r].pc = "extract",
                                     !.runs[r].audio_path = Some(audio_path),
                                     !.files = @ \cup {audio_path}]
    /\ UNCHANGED <<pvars, dvars, parse, inst, loc, lst, yvars>>

\* transcribe.rs 34-42: the temporary directory, a new uuid, extract_audio is called
ConcExtractStart ==
    /\ conc.pc = "on"
    /\ \E r \in Runs, uuid \in Uuids \ conc.used :
          /\ conc.runs[r].pc = "start"
          /\ LET audio_path == FilePath("clip-flow", uuid, "wav")
             IN conc' = [conc EXCEPT !.runs[r].pc = "extract",
                                     !.runs[r].audio_path = Some(audio_path),
                                     !.used = @ \cup {uuid},
                                     !.files = @ \cup {audio_path}]
    /\ UNCHANGED <<pvars, dvars, parse, inst, loc, lst, yvars>>

\* transcribe.rs 44-66, whisper.rs 138-149: extraction is over; transcribe builds
\* the output path and the engine writes its JSON
ConcTranscribeStart ==
    /\ conc.pc = "on"
    /\ \E r \in Runs :
          /\ conc.runs[r].pc = "extract"
          /\ LET output_path == with_extension(Unwrap(conc.runs[r].audio_path), "json")
             IN conc' = [conc EXCEPT !.runs[r].pc = "transcribe",
                                     !.runs[r].output_path = Some(output_path),
                                     !.files = @ \cup {EngineOutputFile(output_path)}]
    /\ UNCHANGED <<pvars, dvars, parse, inst, loc, lst, yvars>>

\* whisper.rs 259, transcribe.rs 69: the JSON is parsed and removed, the wav removed
ConcFinish ==
    /\ conc.pc = "on"
    /\ \E r \in Runs :
          /\ conc.runs[r].pc = "transcribe"
          /\ conc' = [conc EXCEPT !.runs[r].pc = "done",
                                  !.files = @ \ {Unwrap(conc.runs[r].audio_path),
                                                 Unwrap(conc.runs[r].output_path)}]
    /\ UNCHANGED <<pvars, dvars, parse, inst, loc, lst, yvars>>

\* a run that is over is followed by a new transcribe_media call
ConcAgain ==
    /\ conc.pc = "on"
    /\ \E r \in Runs, input \in InputFiles :
          /\ conc.runs[r].pc = "done"
          /\ conc.used # Uuids
          /\ conc' = [conc EXCEPT !.runs[r] = [pc |-> "start", input |-> input,
                                               audio_path |-> None, output_path |-> None]]
    /\ UNCHANGED <<pvars, dvars, parse, inst, loc, lst, yvars>>

NextConcurrent ==
    \/ ConcExtractStart \/ ConcTranscribeStart \/ ConcFinish \/ ConcAgain

SpecConcurrent == InitConcurrent /\ [][NextConcurrent]_vars

(***************************************************************************)
(* DownloadService::get_installed_models (download.rs 132-151), one call,  *)
(* cut at its await points.  lst.dir says whether the models directory     *)
(* exists, lst.entries is the set of file names in it, lst.pending the     *)
(* entries the ReadDir stream has not yielded yet.  Ghosts: lst.existed,   *)
(* whether the directory existed when the call began, and lst.failed, the  *)
(* file-system call that reported an error.                                *)
(***************************************************************************)
NameTinyBin == <<"g", "g", "m", "l", "-", "t", "i", "n", "y", ".", "b", "i", "n">>
NameBaseTmp == <<"g", "g", "m", "l", "-", "b", "a", "s", "e", ".", "b", "i", "n", ".", "t", "m", "p">>
NameNotes == <<"n", "o", "t", "e", "s", ".", "t", "x", "t">>
NameBareBin == <<"t", "i", "n", "y", ".", "b", "i", "n">>
EntryNames == {NameTinyBin, NameBaseTmp, NameNotes, NameBareBin}
PrefixGgml == <<"g", "g", "m", "l", "-">>
ExtBin == <<"b", "i", "n">>

\* position of the last "." of a file name, 0 when there is none
RECURSIVE LastDot(_)
LastDot(name) ==
    IF name = <<>> THEN 0
    ELSE IF Last(name) = "." THEN Len(name)
    ELSE LastDot(SubSeq(name, 1, Len(name) - 1))

\* Path::extension: the part after the last ".", None without a "." or when the
\* only "." is the first character
path_extension(name) ==
    IF LastDot(name) <= 1 THEN None ELSE Some(SubSeq(name, LastDot(name) + 1, Len(name)))

\* Path::file_stem: the part before the last "."
path_file_stem(name) ==
    IF name = <<>> THEN None
    ELSE IF LastDot(name) <= 1 THEN Some(name)
    ELSE Some(SubSeq(name, 1, LastDot(name) - 1))

\* str::trim_start_matches: the prefix is removed as often as it occurs
RECURSIVE trim_start_matches(_, _)
trim_start_matches(s, prefix) ==
    IF Len(s) >= Len(prefix) /\ SubSeq(s, 1, Len(prefix)) = prefix
    THEN trim_start_matches(SubSeq(s, Len(prefix) + 1, Len(s)), prefix)
    ELSE s

\* download.rs 139-148: what one directory entry adds to the list
PushEntry(installed, name) ==
    IF path_extension(name) = Some(ExtBin) /\ IsSome(path_file_stem(name))
    THEN Append(installed, trim_start_matches(Unwrap(path_file_stem(name)), PrefixGgml))
    ELSE installed

\* the file name of DownloadService::get_model_path: ggml-<model_id>.bin
model_file_name(model_id) == PrefixGgml \o model_id \o <<".">> \o ExtBin

\* DownloadService::is_model_installed on the directory content: the file exists
is_model_file_present(model_id, entries) == model_file_name(model_id) \in entries

IdTiny == <<"t", "i", "n", "y">>
IdBase == <<"b", "a", "s", "e">>
ListIds == {IdTiny, IdBase}

\* the orders in which a ReadDir stream can yield the entries
RECURSIVE Orders(_)
Orders(S) ==
    IF S = {} THEN {<<>>}
    ELSE UNION {{<<x>> \o o : o \in Orders(S \ {x})} : x \in S}

InitList ==
    /\ PipelineIdle
    /\ DownloadIdle
    /\ parse = Off /\ inst = Off /\ loc = Off /\ conc = Off
    /\ KeychainOff /\ DeletesOff /\ WatcherOff
    /\ \E dir \in BOOLEAN :
          \E entries \in (IF dir THEN SUBSET EntryNames ELSE {{}}) :
              lst = [pc |-> "l_start", dir |-> dir, entries |-> entries, pending |-> <<>>,
                     installed |-> <<>>, ret |-> Pending, existed |-> dir, failed |-> ""]

ListReturn(l, r) == [l EXCEPT !.pc = "l_done", !.ret = r]

\* download.rs 133: ensure_models_directory is called
ListCall ==
    /\ lst.pc = "l_start"
    /\ lst' = [lst EXCEPT !.pc = "l_mkdir"]
    /\ UNCHANGED <<pvars, dvars, parse, inst, loc, conc, yvars>>

\* mutant of ListMkdirDone: the directory is not created
ListMkdirDone_NoCreate ==
    /\ lst.pc = "l_mkdir"
    /\ lst' = [lst EXCEPT !.pc = "l_read_dir"]
    /\ UNCHANGED <<pvars, dvars, parse, inst, loc, conc, yvars>>

\* download.rs 127-129, 133-136: create_dir_all returns; read_dir is called
ListMkdirDone ==
    /\ lst.pc = "l_mkdir"
    /\ \E ok \in BOOLEAN :
          lst' = IF ~ok /\ ~lst.dir
                 THEN ListReturn([lst EXCEPT !.failed = "create_dir_all"],
                                 Err("Io", "create_dir_all"))
                 ELSE [lst EXCEPT !.pc = "l_read_dir", !.dir = TRUE]
    /\ UNCHANGED <<pvars, dvars, parse, inst, loc, conc, yvars>>

\* download.rs 136-138: read_dir returns; next_entry is called
ListReadDirDone ==
    /\ lst.pc = "l_read_dir"
    /\ \E ok \in BOOLEAN, order \in Orders(lst.entries) :
          lst' = IF ~lst.dir THEN ListReturn(lst, Err("Io", "read_dir"))
                 ELSE IF ~ok
                 THEN ListReturn([lst EXCEPT !.failed = "read_dir"], Err("Io", "read_dir"))
                 ELSE [lst EXCEPT !.pc = "l_next", !.pending = order]
    /\ UNCHANGED <<pvars, dvars, parse, inst, loc, conc, yvars>>

\* download.rs 138-150: next_entry returns an entry, the end or an error
ListNextEntryDone ==
    /\ lst.pc = "l_next"
    /\ \E ok \in BOOLEAN :
          lst' = IF ~ok
                 THEN ListReturn([lst EXCEPT !.failed = "next_entry"], Err("Io", "next_entry"))
                 ELSE IF lst.pending = <<>> THEN ListReturn(lst, Ok(lst.installed))
                 ELSE [lst EXCEPT !.pending = Tail(@),
                                  !.installed = PushEntry(@, Head(lst.pending))]
    /\ UNCHANGED <<pvars, dvars, parse, inst, loc, conc, yvars>>

NextList ==
    \/ ListCall \/ ListMkdirDone \/ ListReadDirDone \/ ListNextEntryDone

SpecList == InitList /\ [][NextList]_vars

(***************************************************************************)
(* KeychainService (keychain.rs 26-108) on the system keychain.            *)
(* kc.entries[t] is the password the keychain holds for the account of key *)
(* type t, None without an entry; set_password overwrites it and           *)
(* delete_credential removes it.  Every keyring call can also fail with a  *)
(* platform error.  Ghosts: kc.log, the store and delete calls that        *)
(* returned Ok, in order, and kc.last, the last call with its outcome.     *)
(***************************************************************************)
MaxOps == 4
ApiKeyTypes == {"openai_api_key", "claude_api_key"}
ApiKeys == {"", "sk-a", "sk-b"}
KeyringOutcomes == {"ok", "entry_error", "platform_error"}

InitKeychain ==
    /\ PipelineIdle
    /\ DownloadIdle
    /\ parse = Off /\ inst = Off /\ loc = Off /\ conc = Off /\ lst = Off
    /\ DeletesOff /\ WatcherOff
    /\ kc = [pc |-> "on", entries |-> [t \in ApiKeyTypes |-> None], log |-> <<>>, n |-> 0,
             last |-> [op |-> "", key_type |-> "", had |-> None, outcome |-> "",
                       ret |-> Pending]]

KcLast(op, key_type, outcome, r) ==
    [op |-> op, key_type |-> key_type, had |-> kc.entries[key_type], outcome |-> outcome,
     ret |-> r]

\* KeychainService::store_api_key
store_api_key ==
    /\ kc.pc = "on" /\ kc.n < MaxOps
    /\ \E key_type \in ApiKeyTypes, api_key \in ApiKeys, outcome \in KeyringOutcomes :
          kc' = CASE outcome = "entry_error" ->
                       [kc EXCEPT !.n = @ + 1,
                                  !.last = KcLast("store", key_type, outcome,
                                                  Err("Keychain", "Failed to create keyring entry"))]
                  [] outcome = "platform_error" ->
                       [kc EXCEPT !.n = @ + 1,
                                  !.last = KcLast("store", key_type, outcome,
                                                  Err("Keychain", "Failed to store API key"))]
                  [] OTHER ->
                       [kc EXCEPT !.n = @ + 1,
                                  !.entries[key_type] = Some(api_key),
                                  !.log = Append(@, [op |-> "store", key_type |-> key_type,
                                                     key |-> api_key]),
                                  !.last = KcLast("store", key_type, outcome, Ok(None))]
    /\ UNCHANGED <<pvars, dvars, xvars, dels, wat>>

\* mutant of get_api_key: an empty password is returned as a key
get_api_key_KeepEmpty ==
    /\ kc.pc = "on" /\ kc.n < MaxOps
    /\ \E key_type \in ApiKeyTypes, outcome \in KeyringOutcomes :
          kc' = [kc EXCEPT
                   !.n = @ + 1,
                   !.last =
                       KcLast("get", key_type, outcome,
                              CASE outcome = "entry_error" ->
                                     Err("Keychain", "Failed to create keyring entry")
                                [] outcome = "platform_error" ->
                                     Err("Keychain", "Failed to get API key")
                                [] OTHER -> Ok(kc.entries[key_type]))]
    /\ UNCHANGED <<pvars, dvars, xvars, dels, wat>>

\* KeychainService::get_api_key
get_api_key ==
    /\ kc.pc = "on" /\ kc.n < MaxOps
    /\ \E key_type \in ApiKeyTypes, outcome \in KeyringOutcomes :
          kc' = [kc EXCEPT
                   !.n = @ + 1,
                   !.last =
                       KcLast("get", key_type, outcome,
                              CASE outcome = "entry_error" ->
                                     Err("Keychain", "Failed to create keyring entry")
                                [] outcome = "platform_error" ->
                                     Err("Keychain", "Failed to get API key")
                                [] OTHER ->
                                     IF IsSome(kc.entries[key_type])
                                     THEN (IF Unwrap(kc.entries[key_type]) = ""
                                           THEN Ok(None)
                                           ELSE Ok(Some(Unwrap(kc.entries[key_type]))))
                                     ELSE Ok(None))]
    /\ UNCHANGED <<pvars, dvars, xvars, dels, wat>>

\* KeychainService::delete_api_key
delete_api_key ==
    /\ kc.pc = "on" /\ kc.n < MaxOps
    /\ \E key_type \in ApiKeyTypes, outcome \in KeyringOutcomes :
          kc' = CASE outcome = "entry_error" ->
                       [kc EXCEPT !.n = @ + 1,
                                  !.last = KcLast("delete", key_type, outcome,
                                                  Err("Keychain", "Failed to create keyring entry"))]
                  [] outcome = "platform_error" ->
                       [kc EXCEPT !.n = @ + 1,
                                  !.last = KcLast("delete", key_type, outcome,
                                                  Err("Keychain", "Failed to delete API key"))]
                  [] OTHER ->
                       \* delete_credential returned Ok(()) or Err(NoEntry)
                       [kc EXCEPT !.n = @ + 1,
                                  !.entries[key_type] = None,
                                  !.log = Append(@, [op |-> "delete", key_type |-> key_type,
                                                     key |-> ""]),
                                  !.last = KcLast("delete", key_type, outcome, Ok(None))]
    /\ UNCHANGED <<pvars, dvars, xvars, dels, wat>>

NextKeychain == store_api_key \/ get_api_key \/ delete_api_key

SpecKeychain == InitKeychain /\ [][NextKeychain]_vars

(***************************************************************************)
(* Concurrent delete_model commands on one models directory                *)
(* (commands/models.rs 68-73, download.rs 220-227).  Every command is its   *)
(* own task: it runs from its call through model_path.exists() to the       *)
(* await of fs::remove_file, and the removal happens later.                 *)
(***************************************************************************)

\* the number of delete_model commands
MaxDeletes == 3

DeleteIds == {"tiny", "base"}

DeleteSlots == 1..MaxDeletes

NoDelete == [pc |-> "idle", model_id |-> "", saw |-> FALSE, overlapped |-> FALSE,
             ret |-> Pending]

InitDeletes ==
    /\ PipelineIdle
    /\ DownloadIdle
    /\ parse = Off /\ inst = Off /\ loc = Off /\ conc = Off /\ lst = Off
    /\ KeychainOff /\ WatcherOff
    /\ \E present \in SUBSET DeleteIds :
          dels = [pc |-> "on", present |-> present, present0 |-> present,
                  calls |-> [i \in DeleteSlots |-> NoDelete]]

\* the commands that have been called and have not returned
DeletesInFlight == {j \in DeleteSlots : dels.calls[j].pc = "d_remove"}

\* delete_model is called (commands/models.rs 68-73): download.rs 221-223 up to
\* the await of fs::remove_file; a model whose file does not exist returns Ok
ConcDeleteCall ==
    /\ dels.pc = "on"
    /\ \E i \in DeleteSlots, model_id \in DeleteIds :
        /\ dels.calls[i].pc = "idle"
        /\ \A j \in 1..(i - 1) : dels.calls[j].pc # "idle"
        /\ LET exists == model_id \in dels.present
               same == {j \in DeletesInFlight : dels.calls[j].model_id = model_id}
           IN dels' = [dels EXCEPT
                  !.calls = [j \in DeleteSlots |->
                      IF j = i
                      THEN [pc |-> IF exists THEN "d_remove" ELSE "done",
                            model_id |-> model_id, saw |-> exists,
                            overlapped |-> exists /\ same # {},
                            ret |-> IF exists THEN Pending ELSE Ok(None)]
                      ELSE IF j \in same /\ exists
                      THEN [@[j] EXCEPT !.overlapped = TRUE]
                      ELSE @[j]]]
    /\ UNCHANGED <<pvars, dvars, xvars, kc, wat>>

\* fs::remove_file returns (download.rs 223-226): the file is removed, or the
\* removal fails because the file is no longer there or may not be removed, and
\* `?` returns the error
ConcDeleteRemoveDone ==
    /\ dels.pc = "on"
    /\ \E i \in DeleteSlots, denied \in BOOLEAN :
        /\ dels.calls[i].pc = "d_remove"
        /\ LET model_id == dels.calls[i].model_id
           IN IF model_id \notin dels.present
              THEN dels' = [dels EXCEPT !.calls[i].pc = "done",
                                        !.calls[i].ret = Err("Io", "NotFound")]
              ELSE IF denied
              THEN dels' = [dels EXCEPT !.calls[i].pc = "done",
                                        !.calls[i].ret = Err("Io", "PermissionDenied")]
              ELSE dels' = [dels EXCEPT !.present = @ \ {model_id},
                                        !.calls[i].pc = "done",
                                        !.calls[i].ret = Ok(None)]
    /\ UNCHANGED <<pvars, dvars, xvars, kc, wat>>

NextDeletes == ConcDeleteCall \/ ConcDeleteRemoveDone

SpecDeletes == InitDeletes /\ [][NextDeletes]_vars

(***************************************************************************)
(* The directory watcher (commands/directory.rs 10-22, 38-125): commands on *)
(* the one WatcherState, each its own task, stepping from one mutex         *)
(* acquisition to the next.  A mutex is owned by the slot of the command    *)
(* that holds its guard, 0 when it is free.                                 *)
(***************************************************************************)

\* the number of start_watching_directory and stop_watching_directory commands
MaxWatchCalls == 3

WatchSlots == 1..MaxWatchCalls

\* the directories that exist, and the paths a command is called with
WatchDirs == {"a", "b"}
WatchInputs == WatchDirs \cup {"gone"}

NoWatchCall == [op |-> "", path |-> "", pc |-> "idle", ret |-> Pending]

\* WatcherState::default, directory.rs 15-22
InitWatcher ==
    /\ PipelineIdle
    /\ DownloadIdle
    /\ parse = Off /\ inst = Off /\ loc = Off /\ conc = Off /\ lst = Off
    /\ KeychainOff /\ DeletesOff
    /\ wat = [pc |-> "on", watcher |-> None, watched_path |-> None,
              watcher_lock |-> 0, path_lock |-> 0,
              calls |-> [i \in WatchSlots |-> NoWatchCall],
              overlap |-> FALSE, last_ok |-> None]

\* the commands that have been called and have not returned
WatchInFlight == {j \in WatchSlots : wat.calls[j].pc \notin {"idle", "done"}}

\* slot i is the next free one
NextWatchSlot(i) ==
    /\ wat.calls[i].pc = "idle"
    /\ \A j \in 1..(i - 1) : wat.calls[j].pc # "idle"

\* start_watching_directory is called: directory.rs 40-53 up to the first
\* state.watcher.lock()
start_watching_directory ==
    /\ wat.pc = "on"
    /\ \E i \in WatchSlots, path \in WatchInputs :
        /\ NextWatchSlot(i)
        /\ wat' = [wat EXCEPT
                !.calls[i] = IF path \in WatchDirs
                             THEN [op |-> "start", path |-> path, pc |-> "s_lock1",
                                   ret |-> Pending]
                             ELSE [op |-> "start", path |-> path, pc |-> "done",
                                   ret |-> Err("String", "Directory does not exist")],
                !.overlap = @ \/ WatchInFlight # {}]
    /\ UNCHANGED <<pvars, dvars, xvars, kc, dels>>

\* stop_watching_directory is called: directory.rs 117-119 up to
\* state.watcher.lock()
stop_watching_directory ==
    /\ wat.pc = "on"
    /\ \E i \in WatchSlots :
        /\ NextWatchSlot(i)
        /\ wat' = [wat EXCEPT
                !.calls[i] = [op |-> "stop", path |-> "", pc |-> "t_lock1",
                              ret |-> Pending],
                !.overlap = @ \/ WatchInFlight # {}]
    /\ UNCHANGED <<pvars, dvars, xvars, kc, dels>>

\* state.watcher.lock() returns the guard: directory.rs 53, 97, 119
LockWatcher ==
    /\ wat.pc = "on"
    /\ wat.watcher_lock = 0
    /\ \E i \in WatchSlots :
        /\ wat.calls[i].pc \in {"s_lock1", "s_lock2", "t_lock1"}
        /\ wat' = [wat EXCEPT
                !.watcher_lock = i,
                !.calls[i].pc = CASE wat.calls[i].pc = "s_lock1" -> "s_clear"
                                  [] wat.calls[i].pc = "s_lock2" -> "s_watch"
                                  [] OTHER -> "t_clear"]
    /\ UNCHANGED <<pvars, dvars, xvars, kc, dels>>

\* state.watched_path.lock() returns the guard: directory.rs 107, 122
LockWatchedPath ==
    /\ wat.pc = "on"
    /\ wat.path_lock = 0
    /\ \E i \in WatchSlots :
        /\ wat.calls[i].pc \in {"s_lock3", "t_lock2"}
        /\ wat' = [wat EXCEPT
                !.path_lock = i,
                !.calls[i].pc = IF wat.calls[i].pc = "s_lock3" THEN "s_store"
                                ELSE "t_store"]
    /\ UNCHANGED <<pvars, dvars, xvars, kc, dels>>

\* directory.rs 54-55: the existing watcher is dropped and the guard released
StartClear ==
    /\ wat.pc = "on"
    /\ \E i \in WatchSlots :
        /\ wat.calls[i].pc = "s_clear"
        /\ wat' = [wat EXCEPT !.watcher = None, !.watcher_lock = 0,
                              !.calls[i].pc = "s_create"]
    /\ UNCHANGED <<pvars, dvars, xvars, kc, dels>>

\* directory.rs 58-93: RecommendedWatcher::new returns
StartCreate ==
    /\ wat.pc = "on"
    /\ \E i \in WatchSlots, ok \in BOOLEAN :
        /\ wat.calls[i].pc = "s_create"
        /\ wat' = IF ok
                  THEN [wat EXCEPT !.calls[i].pc = "s_lock2"]
                  ELSE [wat EXCEPT !.calls[i].pc = "done",
                                   !.calls[i].ret = Err("String", "Failed to create watcher")]
    /\ UNCHANGED <<pvars, dvars, xvars, kc, dels>>

\* directory.rs 99-104: w.watch returns, the watcher is installed on success,
\* and the guard is released
StartWatch ==
    /\ wat.pc = "on"
    /\ \E i \in WatchSlots, ok \in BOOLEAN :
        /\ wat.calls[i].pc = "s_watch"
        /\ wat' = IF ok
                  THEN [wat EXCEPT !.watcher = Some(wat.calls[i].path),
                                   !.watcher_lock = 0,
                                   !.calls[i].pc = "s_lock3"]
                  ELSE [wat EXCEPT !.watcher_lock = 0,
                                   !.calls[i].pc = "done",
                                   !.calls[i].ret = Err("String", "Failed to watch directory")]
    /\ UNCHANGED <<pvars, dvars, xvars, kc, dels>>

\* directory.rs 108-112: the path is stored, the guard released, Ok returned
StartStore ==
    /\ wat.pc = "on"
    /\ \E i \in WatchSlots :
        /\ wat.calls[i].pc = "s_store"
        /\ wat' = [wat EXCEPT !.watched_path = Some(wat.calls[i].path),
                              !.path_lock = 0,
                              !.last_ok = Some(wat.calls[i].path),
                              !.calls[i].pc = "done",
                              !.calls[i].ret = Ok(None)]
    /\ UNCHANGED <<pvars, dvars, xvars, kc, dels>>

\* directory.rs 120-122: the watcher is dropped with the guard kept, up to
\* state.watched_path.lock()
StopClear ==
    /\ wat.pc = "on"
    /\ \E i \in WatchSlots :
        /\ wat.calls[i].pc = "t_clear"
        /\ wat' = [wat EXCEPT !.watcher = None, !.calls[i].pc = "t_lock2"]
    /\ UNCHANGED <<pvars, dvars, xvars, kc, dels>>

\* directory.rs 123-125: the path is cleared, both guards are released, Ok
\* returned
StopStore ==
    /\ wat.pc = "on"
    /\ \E i \in WatchSlots :
        /\ wat.calls[i].pc = "t_store"
        /\ wat' = [wat EXCEPT !.watched_path = None,
                              !.path_lock = 0, !.watcher_lock = 0,
                              !.calls[i].pc = "done",
                              !.calls[i].ret = Ok(None)]
    /\ UNCHANGED <<pvars, dvars, xvars, kc, dels>>

\* the steps of a command after its call
WatchStep ==
    \/ LockWatcher \/ LockWatchedPath
    \/ StartClear \/ StartCreate \/ StartWatch \/ StartStore
    \/ StopClear \/ StopStore

NextWatcher == start_watching_directory \/ stop_watching_directory \/ WatchStep

SpecWatcher == InitWatcher /\ [][NextWatcher]_vars

\* every command that has been called is run on
SpecWatcherFair == SpecWatcher /\ WF_vars(WatchStep)

(***************************************************************************)
(* Properties.                                                             *)
(***************************************************************************)
IsMedia == cmd = "transcribe_media"

\* C1: every transcribe_media run that has built its temporary waveform path
\* has no temporary .wav file left when it returns, with a result or an error.
C1_TempWavGoneOnReturn ==
    (IsMedia /\ pc = "done" /\ run.wavPath) => ~fsys.wav

\* a download_model call has returned (not been dropped)
DownloadReturned ==
    dpc = "idle" /\ dcall.op = "download_model" /\ ~dcall.cancelled

\* C2: a file at a canonical model path always holds the whole body of the
\* response it was streamed from (it got there by the rename after the end of
\* the stream), and a download that failed mid-stream for a model that was
\* not installed leaves no file at the canonical path.
C2_CanonicalOnlyComplete ==
    /\ \A m \in RequestIds :
        IsSome(files[m]) => Unwrap(files[m]).bytes = Unwrap(files[m]).of
    /\ (DownloadReturned /\ dcall.ret = Err("Download", "stream") /\ ~dcall.wasInstalled)
        => ~is_model_installed(dcall.model_id)

\* C2 witness: a download failed mid-stream after a chunk had been written
C2_Witness ==
    /\ DownloadReturned /\ dcall.ret = Err("Download", "stream")
    /\ ~dcall.wasInstalled
    /\ IsSome(tmpf[dcall.model_id])
    /\ Len(Unwrap(tmpf[dcall.model_id]).bytes) >= 1

\* C3: a download_model call answered with a non-2xx status returns an error
\* and makes no file visible at the canonical path.
C3_Non2xxIsAnError ==
    (DownloadReturned /\ dl.status # 0 /\ dl.status \notin 200..299)
        => /\ dcall.ret.tag = "Err"
           /\ (~dcall.wasInstalled => ~is_model_installed(dcall.model_id))

\* C4: after download_model has failed or has been cancelled, the temporary
\* file ggml-<id>.bin.tmp of that model does not exist.
C4_TmpGoneAfterFailure ==
    (dpc = "idle" /\ dcall.op = "download_model"
        /\ (dcall.cancelled \/ dcall.ret.tag = "Err"))
        => ~IsSome(tmpf[dcall.model_id])

\* C5: a transcribe_media run cancelled while ffmpeg or the engine is running
\* leaves no such process running and has executed the removal of the
\* temporary waveform.
C5_CancelKillsAndCleans ==
    (IsMedia /\ pc = "cancelled"
        /\ run.cancelledAt \in {"ffmpeg_read", "ffmpeg_wait", "whisper_read",
                                "whisper_wait"})
        => /\ procs.ffmpeg # "running"
           /\ procs.whisper # "running"
           /\ run.cleanup

\* C6: in a transcribe_media run the engine is spawned only after ffmpeg has
\* exited with status 0, ffmpeg and the engine never run at the same time, and
\* a run whose extraction failed never spawns the engine.
C6_StagesSequential ==
    IsMedia =>
        /\ ~(procs.ffmpeg = "running" /\ procs.whisper = "running")
        /\ spawned.whisper > 0 => (procs.ffmpeg = "exited" /\ run.ffStatus = Some(0))
        /\ (ret.tag = "Err" /\ ret.kind = "FFmpeg") => spawned.whisper = 0

\* C6 witness: the engine runs in a transcribe_media run
C6_Witness == IsMedia /\ procs.whisper = "running"

\* C7 as claimed: a file without an audio stream makes transcribe_media fail
\* with the no-audio error before any subprocess is spawned, before the temporary
\* directory and waveform path are made and before any progress event.
C7_NoAudioBeforeAnySubprocess ==
    (IsMedia /\ run.probe = "noaudio")
        => /\ pc = "done" /\ ret = NoAudioStream
           /\ spawned.ffprobe = 0 /\ spawned.ffmpeg = 0 /\ spawned.whisper = 0
           /\ ~run.mkdirCalled /\ ~run.wavPath
           /\ events = <<>>

\* C7 as amended: a file without an audio stream makes transcribe_media fail
\* with the no-audio error after the one ffprobe process of the probe has run
\* and exited, before ffmpeg or the engine is spawned, before the temporary
\* directory and waveform path are made and before any progress event.
C7_NoAudioAfterProbeOnly ==
    (IsMedia /\ run.probe = "noaudio")
        => /\ pc = "done" /\ ret = NoAudioStream
           /\ spawned.ffprobe = 1 /\ procs.ffprobe = "exited"
           /\ spawned.ffmpeg = 0 /\ spawned.whisper = 0
           /\ ~run.mkdirCalled /\ ~run.wavPath
           /\ events = <<>>

\* C7 witness: the probe has reported a file without an audio stream
C7_Witness == IsMedia /\ run.probe = "noaudio"

\* the on_progress calls WhisperService::transcribe has made
TranscribeCallbacks == SelectSeq(run.cb, LAMBDA c : c.fn = "transcribe")

\* C8 as claimed: transcribe called with a model id that is not installed
\* fails with ModelNotFound naming the id, without spawning the engine and
\* without calling on_progress.
C8_ModelNotFound ==
    (run.transcribeCalled /\ ~is_model_installed(run.model_id))
        => /\ pc = "done" /\ ret = Err("ModelNotFound", run.model_id)
           /\ spawned.whisper = 0
           /\ TranscribeCallbacks = <<>>

\* C8 as amended: transcribe called with a model id that is not installed
\* fails without spawning the engine and without calling on_progress; the
\* error is ModelNotFound naming the id when the engine binary was located,
\* and the engine-not-found error when it was not.
C8_ModelNotFoundIfEngineFound ==
    (run.transcribeCalled /\ ~is_model_installed(run.model_id))
        => /\ pc = "done"
           /\ ret = IF env.whisper THEN Err("ModelNotFound", run.model_id)
                    ELSE Err("Whisper", "whisper.cpp not found")
           /\ spawned.whisper = 0
           /\ TranscribeCallbacks = <<>>

\* C8 witness: transcribe was called with the engine located and the model
\* not installed
C8_Witness ==
    run.transcribeCalled /\ env.whisper /\ ~is_model_installed(run.model_id)

\* C9: every "extracting" event of transcribe_media has a percent in [0,30]
\* and every "transcribing" event a percent in [30,100].
C9_ProgressBands ==
    IsMedia =>
        \A i \in 1..Len(events) :
            /\ events[i].stage = "extracting"
                => (0 <= events[i].progress /\ events[i].progress <= 3000)
            /\ events[i].stage = "transcribing"
                => (3000 <= events[i].progress /\ events[i].progress <= 10000)

\* the segments of the document read whose text has a non-whitespace character
RawSegments ==
    IF IsSome(run.doc) /\ IsSome(Unwrap(run.doc).transcription)
    THEN Unwrap(Unwrap(run.doc).transcription)
    ELSE <<>>

NonBlank(segment) ==
    /\ IsSome(segment.text)
    /\ \E i \in 1..Len(Unwrap(segment.text)) : ~IsWhitespace(Unwrap(segment.text)[i])

RetainedIndexes == {i \in 1..Len(RawSegments) : NonBlank(RawSegments[i])}

\* C10: a run that has returned holds either a result or an error; the
\* duration of a result is the end time of the last segment of the engine's
\* output that has non-blank text, or 0 when there is none, and an output
\* without such a segment gives a result with no segments and an empty
\* full_text.
C10_ResultOrErrorAndDuration ==
    pc = "done" =>
        /\ ret.tag \in {"Ok", "Err"}
        /\ IsSome(run.doc) => ret.tag = "Ok"
        /\ ret.tag = "Ok" =>
            /\ IsSome(run.doc)
            /\ Len(ret.value.segments) = Cardinality(RetainedIndexes)
            /\ IF RetainedIndexes = {}
               THEN /\ ret.value.segments = <<>>
                    /\ ret.value.full_text = <<>>
                    /\ ret.value.duration = 0
               ELSE LET last == CHOOSE i \in RetainedIndexes :
                                    \A j \in RetainedIndexes : j <= i
                    IN /\ ret.value.duration = SegTime(RawSegments[last], "to")
                       /\ ret.value.duration = Last(ret.value.segments).end

\* C10 witness: a result whose last retained segment is followed by a blank
\* one that ends later
C10_Witness ==
    /\ pc = "done" /\ ret.tag = "Ok"
    /\ RetainedIndexes # {}
    /\ \E i \in 1..Len(RawSegments) :
        i \notin RetainedIndexes /\ SegTime(RawSegments[i], "to") > ret.value.duration

\* the index in RawSegments of the k-th segment with non-blank text
RECURSIVE NthRetainedFrom(_, _)
NthRetainedFrom(k, i) ==
    IF NonBlank(RawSegments[i])
    THEN IF k = 1 THEN i ELSE NthRetainedFrom(k - 1, i + 1)
    ELSE NthRetainedFrom(k, i + 1)

NthRetained(k) == NthRetainedFrom(k, 1)

\* a run has returned a TranscriptionResult
ReturnedResult == pc = "done" /\ ret.tag = "Ok"

\* C11: every segment of a returned result has end >= start >= 0 and a text
\* that is non-empty and trimmed; the segments of the engine's output with
\* blank text are dropped and the others are kept in the engine's order.
C11_SegmentsWellFormed ==
    ReturnedResult =>
        /\ Len(ret.value.segments) = Cardinality(RetainedIndexes)
        /\ \A k \in 1..Len(ret.value.segments) :
            LET s == ret.value.segments[k]
            IN /\ s = SegmentOf(RawSegments[NthRetained(k)])
               /\ s.text # <<>> /\ Trim(s.text) = s.text
               /\ 0 <= s.start /\ s.start <= s.end

\* the texts of the segments, joined by single spaces
RECURSIVE JoinTexts(_)
JoinTexts(segments) ==
    IF segments = <<>> THEN <<>>
    ELSE IF Len(segments) = 1 THEN segments[1].text
    ELSE segments[1].text \o <<" ">> \o JoinTexts(Tail(segments))

\* the document with the three segments "Hello", "", "world" was read
HelloWorldRead ==
    /\ Len(RawSegments) = 3
    /\ Trim(Unwrap(RawSegments[1].text)) = <<"H", "e", "l", "l", "o">>
    /\ Unwrap(RawSegments[2].text) = <<>>
    /\ Trim(Unwrap(RawSegments[3].text)) = <<"w", "o", "r", "l", "d">>

\* C12: full_text of a returned result is the texts of its segments (the
\* retained ones, in order) joined by single spaces and trimmed; for the texts
\* "Hello", "", "world" the result has two segments and full_text "Hello world".
C12_FullTextIsJoin ==
    ReturnedResult =>
        /\ ret.value.full_text = Trim(JoinTexts(ret.value.segments))
        /\ \A k \in 1..Len(ret.value.segments) :
            ret.value.segments[k].text
                = Trim(Unwrap(RawSegments[NthRetained(k)].text))
        /\ HelloWorldRead =>
            /\ Len(ret.value.segments) = 2
            /\ ret.value.full_text
                = <<"H", "e", "l", "l", "o", " ", "w", "o", "r", "l", "d">>

\* C12 witness: a result was returned for the texts "Hello", "", "world"
C12_Witness == ReturnedResult /\ HelloWorldRead

\* the complete events emitted so far
CompleteEvents == SelectSeq(events, LAMBDA e : e.stage = "complete")

\* C13: a transcribe_media run has emitted the event (complete, 100) exactly
\* once when it has returned a result and never otherwise; the event is the
\* last event of the run and follows the removal of the temporary waveform.
C13_CompleteOnceAndLast ==
    IsMedia =>
        /\ Len(CompleteEvents) = IF ReturnedResult THEN 1 ELSE 0
        /\ CompleteEvents # <<>> =>
            /\ Last(events) = [stage |-> "complete", progress |-> 10000]
            /\ run.cleanup
            /\ \A i \in 1..(Len(events) - 1) :
                events[i].stage \in {"extracting", "transcribing"}

\* C13 witness: a transcribe_media run has returned a result after extracting
\* and transcribing events
C13_Witness ==
    /\ IsMedia /\ ReturnedResult
    /\ \E i, j \in 1..Len(events) :
        events[i].stage = "extracting" /\ events[j].stage = "transcribing"

\* C14: in one transcribe_media call the media probe, the ffmpeg extraction
\* and the engine are each started at most once, and the first of them to fail
\* ends the run with its own error, nothing after it having been started.
C14_SingleAttempt ==
    IsMedia =>
        /\ run.probeCalls <= 1 /\ spawned.ffmpeg <= 1 /\ spawned.whisper <= 1
        /\ ret.tag = "Err" => pc = "done"
        /\ run.probe = "failed" =>
            /\ pc = "done" /\ ret = Err("FFmpeg", "Failed to get media info")
            /\ spawned.ffmpeg = 0 /\ spawned.whisper = 0
        /\ run.ffStatus = Some(1) =>
            /\ pc = "done" /\ ret = Err("FFmpeg", "Audio extraction failed")
            /\ spawned.whisper = 0
        /\ run.whStatus = Some(1) =>
            /\ pc = "done" /\ ret = Err("Whisper", "Transcription failed")

\* C14 witness: the extraction of a transcribe_media run has failed after the
\* probe had succeeded
C14_Witness == IsMedia /\ run.probe = "audio" /\ run.ffStatus = Some(1)

\* the last call was a delete_model call
Deleted == dcall.op = "delete_model"

\* C15: delete_model called for a model whose file is absent returns success
\* and changes no file; of two consecutive delete_model calls for the same id
\* of which the first returned success, the second returns success too, and
\* the model is not installed after either.
C15_DeleteIdempotent ==
    /\ [](Deleted =>
            /\ ~dcall.wasInstalled => dcall.ret = Ok("")
            /\ dcall.ret = Ok("") => ~is_model_installed(dcall.model_id)
            /\ (dcall.prev.op = "delete_model" /\ dcall.prev.model_id = dcall.model_id
                    /\ dcall.prev.tag = "Ok")
                => (~dcall.wasInstalled /\ dcall.ret = Ok("")))
    /\ [][(dcall'.n = dcall.n + 1 /\ dcall'.op = "delete_model"
                /\ ~is_model_installed(dcall'.model_id))
            => (files' = files /\ tmpf' = tmpf /\ modelsDir' = modelsDir)]_vars

\* C15 witness: two consecutive delete_model calls for the same id, the first
\* of which removed an installed file
C15_Witness ==
    /\ Deleted /\ dcall.prev.op = "delete_model"
    /\ dcall.prev.model_id = dcall.model_id /\ dcall.prev.tag = "Ok"
    /\ dcall.prev.wasInstalled
    /\ dcall.ret = Ok("")

\* the current or last call is download_model with an id of no catalog entry
UnknownIdDownload == dcall.op = "download_model" /\ dcall.model_id \notin Catalog

\* C16 as claimed: download_model called with an id that is not in the
\* catalog fails with ModelNotFound, without an HTTP request, without a call
\* of on_progress and without a temporary or canonical model file.
C16_UnknownIdModelNotFound ==
    UnknownIdDownload =>
        /\ DownloadReturned => dcall.ret = Err("ModelNotFound", dcall.model_id)
        /\ dcall.requests = 0 /\ dcall.progress = <<>>
        /\ ~IsSome(tmpf[dcall.model_id]) /\ ~IsSome(files[dcall.model_id])

\* C16 as amended: download_model called with an id that is not in the
\* catalog fails with ModelNotFound once the models directory exists or has
\* been created, and with the I/O error of create_dir_all when it cannot be
\* created; in both cases without an HTTP request, without a call of
\* on_progress and without a temporary or canonical model file.
C16_UnknownIdModelNotFoundAfterMkdir ==
    UnknownIdDownload =>
        /\ DownloadReturned =>
            dcall.ret = IF modelsDir THEN Err("ModelNotFound", dcall.model_id)
                        ELSE Err("Io", "create_dir_all")
        /\ dcall.requests = 0 /\ dcall.progress = <<>>
        /\ ~IsSome(tmpf[dcall.model_id]) /\ ~IsSome(files[dcall.model_id])

\* C16 witness: download_model with an unknown id has returned ModelNotFound
C16_Witness ==
    /\ UnknownIdDownload /\ DownloadReturned
    /\ dcall.ret = Err("ModelNotFound", dcall.model_id)

\* the current or last call is download_model
Downloading == dcall.op = "download_model"

\* the file the current download_model call has written: its temporary file
\* or, after the rename, the canonical one
WrittenFile ==
    LET m == dcall.model_id
    IN IF IsSome(tmpf[m]) /\ Unwrap(tmpf[m]).call = dcall.n THEN tmpf[m]
       ELSE IF IsSome(files[m]) /\ Unwrap(files[m]).call = dcall.n THEN files[m]
       ELSE None

\* the current call has renamed its file to the canonical path
Renamed ==
    /\ IsSome(files[dcall.model_id])
    /\ Unwrap(files[dcall.model_id]).call = dcall.n

\* C17: download_model has called on_progress once for each chunk written to
\* the temporary file, with downloaded the sum of the lengths of the chunks
\* received so far, which never decreases; a callback is made only on the
\* completion of a write, and all of them are made before the rename.
C17_ProgressPerChunk ==
    /\ [](Downloading =>
            /\ Len(dcall.progress)
                = IF IsSome(WrittenFile) THEN Len(Unwrap(WrittenFile).bytes) ELSE 0
            /\ \A i \in 1..Len(dcall.progress) :
                /\ dcall.progress[i].downloaded = Sum(SubSeq(dl.body, 1, i))
                /\ i > 1 => dcall.progress[i - 1].downloaded
                                <= dcall.progress[i].downloaded
            /\ Renamed => Len(dcall.progress) = Len(dl.body))
    /\ [][(dcall'.n = dcall.n /\ dcall'.progress # dcall.progress)
            => /\ dpc = "d_write" /\ ~Renamed
               /\ Len(dcall'.progress) = Len(dcall.progress) + 1
               /\ SubSeq(dcall'.progress, 1, Len(dcall.progress)) = dcall.progress
               /\ Unwrap(tmpf'[dcall.model_id]).bytes
                    = Append(Unwrap(tmpf[dcall.model_id]).bytes, dl.body[dl.next])]_vars

\* C17 witness: a download of two chunks has been renamed into place
C17_Witness == Downloading /\ Renamed /\ Len(dcall.progress) = 2

\* the on_progress calls FFmpegService::extract_audio has made
ExtractCallbacks == SelectSeq(run.cb, LAMBDA c : c.fn = "extract")

\* C18: when ffmpeg has exited with status 0, extract_audio has called
\* on_progress(100) as its last callback, one more callback than the progress
\* lines gave, and has returned Ok (the run has gone on to transcribe); when
\* ffmpeg has exited with another status, extract_audio has failed with the
\* FFmpeg error and has made no callback beyond those of the progress lines.
C18_FinalProgressOnZeroExit ==
    IsMedia =>
        /\ run.ffStatus = Some(0) =>
            /\ ExtractCallbacks # <<>> /\ Last(ExtractCallbacks).p = 1000
            /\ Len(ExtractCallbacks) <= run.ffLines + 1
            /\ run.transcribeCalled
            /\ \A i, j \in 1..Len(run.cb) :
                (run.cb[i].fn = "transcribe" /\ run.cb[j].fn = "extract") => j < i
        /\ run.ffStatus = Some(1) =>
            /\ pc = "done" /\ ret = Err("FFmpeg", "Audio extraction failed")
            /\ Len(ExtractCallbacks) <= run.ffLines
            /\ ~run.transcribeCalled
        /\ run.ffStatus = None => Len(ExtractCallbacks) <= run.ffLines

\* C18 witness: ffmpeg has exited with status 0 after a progress line
C18_Witness ==
    IsMedia /\ run.ffStatus = Some(0) /\ Len(ExtractCallbacks) >= 2

\* the duration probe of extract_audio has failed
DurationProbeFailed == run.durProbe \in {"norun", "failed", "unparsable"}

C20_ExtractProgressInRange ==
    \A i \in 1..Len(ExtractCallbacks) :
        0 <= ExtractCallbacks[i].p /\ ExtractCallbacks[i].p <= 1000

\* C21: once the engine has exited with status 0 and parse_whisper_output has
\* run, the engine's output file has been deleted, whether parsing succeeded
\* or failed: a file that is still there was handed to remove_file, whose
\* failure is dropped.
C21_EngineOutputDeleted ==
    (pc = "done" /\ run.whStatus = Some(0) /\ IsSome(fsys.json)) => run.rmJson

\* C27: a binary that cannot be located is never handed to spawn, by the
\* transcriber or by the audio extractor, and the call fails with an error
\* that says the tool was not found.
C27_NoSpawnOfMissingBinary ==
    /\ ~env.whisper =>
        /\ run.attempts.whisper = 0
        /\ run.transcribeCalled => ret = Err("Whisper", "whisper.cpp not found")
    /\ ~env.ffmpeg => run.attempts.ffmpeg = 0

(***************************************************************************)
(* Properties of the segment times.                                        *)
(***************************************************************************)
TimeFields == {"from", "to"}
ParsedOut == parse.pc = "out"
ParseResult(which) == IF which = "from" THEN parse.start ELSE parse.end
ParseResultF64(which) == IF which = "from" THEN parse.startF ELSE parse.endF

FormattedPresent(which) ==
    IsSome(parse.segment.timestamps) /\ IsSome(Unwrap(parse.segment.timestamps)[which])

OffsetPresent(which) ==
    IsSome(parse.segment.offsets) /\ IsSome(Unwrap(parse.segment.offsets)[which])

OffsetValue(which) == Unwrap(Unwrap(parse.segment.offsets)[which])

\* C22 as stated: the offsets are used only when the formatted field is absent:
\* a segment that has a formatted field gets that field's time, and never the
\* time of its offset.
C22_OffsetsOnlyWhenFormattedAbsent ==
    ParsedOut =>
        \A which \in TimeFields :
            FormattedPresent(which) =>
                /\ IsSome(parse.meant[which]) => ParseResult(which) = Unwrap(parse.meant[which])
                /\ (~IsSome(parse.meant[which]) /\ OffsetPresent(which)
                        /\ OffsetValue(which) # 0)
                    => ParseResult(which) # OffsetValue(which)

\* C22 amended: a formatted field that parses as a timestamp gives the time,
\* whatever the offset says; when the formatted field is absent or does not
\* parse, the offset gives it; with neither the time is 0.
C22_FormattedWhenParsable ==
    ParsedOut =>
        \A which \in TimeFields :
            ParseResult(which) =
                IF IsSome(parse.meant[which]) THEN Unwrap(parse.meant[which])
                ELSE IF OffsetPresent(which) THEN OffsetValue(which)
                ELSE 0

\* C22 witness: a segment whose start has a formatted field and a different
\* offset got the formatted time.
C22_Witness ==
    /\ ParsedOut
    /\ FormattedPresent("from") /\ OffsetPresent("from")
    /\ parse.meant.from = Some(83456)
    /\ OffsetValue("from") = 1500
    /\ parse.start = 83456

\* one unit in the last place between two doubles of the same binade
F64WithinOneUlp(x, y) ==
    \/ x = y
    \/ /\ x # F64Zero /\ y # F64Zero
       /\ x.exp = y.exp
       /\ (BAdd(x.mant, <<1>>) = y.mant \/ BAdd(y.mant, <<1>>) = x.mant)

\* hours * 3600.0 + minutes * 60.0 + seconds for the fields of the timestamp
\* written from ms, computed from the numbers and not from a text
TimestampSeconds(ms) ==
    F64Add(F64Add(F64MulNat(F64FromNat(ms \div 3600000), 3600),
                  F64MulNat(F64FromNat((ms \div 60000) % 60), 60)),
           RoundToF64(BFromNat(ms % 60000), 1000, 0))

\* C23 as stated: every formatted timestamp, with a comma or with a period,
\* parses to the very f64 the offset conversion gives for the same number of
\* milliseconds.
C23_TimestampEqualsOffsetValue ==
    ParsedOut =>
        \A which \in TimeFields :
            IsSome(parse.meant[which]) =>
                ParseResultF64(which) = OffsetSeconds(Unwrap(parse.meant[which]))

\* C23 amended: the comma form and the period form parse to the same f64; it
\* is the offset conversion's value up to one unit in the last place, the same
\* millisecond, and exactly the offset conversion's value for 00:01:23.456.
C23_TimestampNearOffsetValue ==
    ParsedOut =>
        \A which \in TimeFields :
            IsSome(parse.meant[which]) =>
                LET ms == Unwrap(parse.meant[which])
                IN /\ ParseResultF64(which) = TimestampSeconds(ms)
                   /\ F64WithinOneUlp(ParseResultF64(which), OffsetSeconds(ms))
                   /\ ParseResult(which) = ms
                   /\ ms = 83456 => ParseResultF64(which) = OffsetSeconds(ms)

\* C23 witness: 00:01:23,456 was parsed, with no offset beside it, to the f64
\* of 83456 / 1000.
C23_Witness ==
    /\ ParsedOut
    /\ parse.meant.from = Some(83456)
    /\ Unwrap(parse.segment.timestamps).from = Some(EngineTimestamp(83456, ","))
    /\ ~OffsetPresent("from")
    /\ parse.startF = OffsetSeconds(83456)
    /\ parse.startF # F64Zero

(***************************************************************************)
(* Properties of the engine installation.                                  *)
(***************************************************************************)
Unsupported == get_whisper_download_url(inst.platform).tag = "Err"

\* C24: on a platform for which there is no engine archive install_whisper_cpp
\* fails at once with the platform's error: it is over after its first step,
\* has sent no HTTP request, has not called on_progress and has created no
\* directory and no file.
C24_UnsupportedFailsImmediately ==
    (inst.pc # "off" /\ Unsupported) =>
        /\ inst.pc \in {"i_start", "i_done"}
        /\ inst.pc = "i_done" =>
               /\ inst.ret.tag = "Err"
               /\ inst.ret = get_whisper_download_url(inst.platform)
        /\ inst.requests = 0
        /\ inst.cb = <<>>
        /\ inst.made = {}
        /\ ~inst.zip
        /\ inst.binary = (IF inst.had_binary THEN "complete" ELSE "absent")

\* C24 witness: the call has returned on macOS, where no archive exists.
C24_Witness ==
    /\ inst.pc = "i_done"
    /\ inst.platform = "macos"
    /\ inst.ret = Err("Whisper", "macOS requires manual installation")

\* C25: every percentage reported while downloading is in [5, 75], every one
\* reported for unpacking and cleanup is in [75, 100], and the percentages of a
\* call never decrease.
C25_InstallProgressRanges ==
    inst.pc # "off" =>
        \A i \in 1..Len(inst.cb) :
            /\ inst.cb[i].msg = MsgDownloading => (50 <= inst.cb[i].p /\ inst.cb[i].p <= 750)
            /\ inst.cb[i].msg \in {MsgExtracting, MsgCleaning, MsgComplete}
                   => (750 <= inst.cb[i].p /\ inst.cb[i].p <= 1000)
            /\ i > 1 => inst.cb[i - 1].p <= inst.cb[i].p

\* C26: once whisper-cpp.zip has been created it no longer exists when the call
\* has returned, whatever the outcome.
C26_ZipGoneOnReturn ==
    (inst.pc = "i_done" /\ "zip" \in inst.made) => ~inst.zip

(***************************************************************************)
(* Properties of the engine locator.                                       *)
(***************************************************************************)
\* 1 for a fixed install path, 2 for the process search path under the engine's
\* current names, 3 for the search path under the legacy name "main"
CandidateClass(p) ==
    IF p.dir # "search_path" THEN 1 ELSE IF p.name # "main" THEN 2 ELSE 3

LocCandidates == FlattenOptions(possible_paths(loc))

\* C28: the locator returns the first candidate that exists, the candidates
\* being ordered fixed install paths, then the process search path, then the
\* legacy binary name; it returns not-found exactly when no candidate exists.
C28_FirstExistingCandidate ==
    loc.pc = "out" =>
        /\ \A i, j \in 1..Len(LocCandidates) :
               i < j => CandidateClass(LocCandidates[i]) <= CandidateClass(LocCandidates[j])
        /\ loc.result = None <=> \A i \in 1..Len(LocCandidates) : LocCandidates[i] \notin loc.exists
        /\ loc.result # None =>
               \E i \in 1..Len(LocCandidates) :
                   /\ loc.result = Some(LocCandidates[i])
                   /\ LocCandidates[i] \in loc.exists
                   /\ \A j \in 1..(i - 1) : LocCandidates[j] \notin loc.exists

\* C28 witness: with a Homebrew binary and engines on the search path under the
\* current and the legacy name, the Homebrew binary was returned.
C28_Witness ==
    /\ loc.pc = "out"
    /\ loc.platform = "macos"
    /\ loc.exists = {Path("/usr/local/bin", "binary"), Path("search_path", "cli"),
                     Path("search_path", "main")}
    /\ loc.result = Some(Path("/usr/local/bin", "binary"))

(***************************************************************************)
(* Properties of concurrent runs.                                          *)
(***************************************************************************)
InProgress(r) == conc.runs[r].pc \in {"extract", "transcribe"}

\* C29: two transcribe_media runs that are in progress at once never have the
\* same temporary wav path, never the same JSON path, and the engine of one
\* never writes the JSON the other reads.
C29_DistinctTempPaths ==
    conc.pc = "on" =>
        \A r1, r2 \in Runs :
            (r1 # r2 /\ InProgress(r1) /\ InProgress(r2)) =>
                /\ conc.runs[r1].audio_path # conc.runs[r2].audio_path
                /\ (IsSome(conc.runs[r1].output_path) /\ IsSome(conc.runs[r2].output_path))
                       => /\ conc.runs[r1].output_path # conc.runs[r2].output_path
                          /\ EngineOutputFile(Unwrap(conc.runs[r1].output_path))
                                 # Unwrap(conc.runs[r2].output_path)

\* C29 witness: two runs on the same input file are both transcribing.
C29_Witness ==
    /\ conc.pc = "on"
    /\ conc.runs[1].pc = "transcribe" /\ conc.runs[2].pc = "transcribe"
    /\ conc.runs[1].input = conc.runs[2].input
    /\ Cardinality(conc.files) = 4

(***************************************************************************)
(* Properties of the model listing.                                        *)
(***************************************************************************)
ListedMissingDir == lst.pc = "l_done" /\ ~lst.existed

\* C30 as stated: a call that found no model directory returns the empty list,
\* not an error, and the directory exists afterwards.
C30_MissingDirIsEmpty ==
    ListedMissingDir => (lst.ret = Ok(<<>>) /\ lst.dir)

\* C30 amended: a call that found no model directory returns the empty list
\* unless a file-system call fails, whose I/O error it returns; the directory
\* exists afterwards unless it was its creation that failed.
C30_MissingDirIsEmptyUnlessIoError ==
    ListedMissingDir =>
        /\ lst.failed = "" => lst.ret = Ok(<<>>)
        /\ lst.failed # "" => lst.ret = Err("Io", lst.failed)
        /\ lst.dir <=> lst.failed # "create_dir_all"

\* C30 witness: a call that found no directory has returned the empty list and
\* the directory exists.
C30_Witness ==
    /\ ListedMissingDir
    /\ lst.ret = Ok(<<>>)
    /\ lst.dir

(***************************************************************************)
(* Properties of the keychain.                                             *)
(***************************************************************************)
\* the last store or delete in log that is about key type t, None without one
RECURSIVE LatestFor(_, _)
LatestFor(log, t) ==
    IF log = <<>> THEN None
    ELSE IF Last(log).key_type = t THEN Some(Last(log))
    ELSE LatestFor(SubSeq(log, 1, Len(log) - 1), t)

\* the key a get of type t is to return by the log: the most recently stored
\* one when no delete followed that store
StoredKey(t) ==
    LET latest == LatestFor(kc.log, t)
    IN IF IsSome(latest) /\ Unwrap(latest).op = "store" THEN Some(Unwrap(latest).key)
       ELSE None

GetReturned == kc.pc = "on" /\ kc.last.op = "get" /\ kc.last.ret.tag = "Ok"

DeletedMissing ==
    /\ kc.pc = "on" /\ kc.last.op = "delete"
    /\ kc.last.had = None /\ kc.last.outcome = "ok"

\* C31 as stated: a get that the keychain answers returns the most recently
\* stored key of its type when no delete followed that store and None
\* otherwise; a delete of a key that does not exist returns success.
C31_GetReturnsLastStored ==
    /\ GetReturned => kc.last.ret.value = StoredKey(kc.last.key_type)
    /\ DeletedMissing => kc.last.ret.tag = "Ok"

\* C31 amended: the same for every key that is not the empty string; a stored
\* empty key reads as None.
C31_GetReturnsLastStoredNonEmpty ==
    /\ GetReturned =>
           kc.last.ret.value =
               (IF StoredKey(kc.last.key_type) = Some("") THEN None
                ELSE StoredKey(kc.last.key_type))
    /\ DeletedMissing => kc.last.ret.tag = "Ok"

\* C31 witness: after two stores of one type the get returned the second key.
C31_Witness ==
    /\ GetReturned
    /\ Len(kc.log) = 2
    /\ kc.log[1] = [op |-> "store", key_type |-> "openai_api_key", key |-> "sk-a"]
    /\ kc.log[2] = [op |-> "store", key_type |-> "openai_api_key", key |-> "sk-b"]
    /\ kc.last.key_type = "openai_api_key"
    /\ kc.last.ret.value = Some("sk-b")

ListedIds == {lst.ret.value[i] : i \in 1..Len(lst.ret.value)}

\* C32: whatever the model directory holds, a model id is in the list that
\* get_installed_models returned exactly when is_model_installed says so, that
\* is when its file ggml-<id>.bin exists.
C32_ListedIffInstalled ==
    (lst.pc = "l_done" /\ lst.ret.tag = "Ok") =>
        \A id \in ListIds : id \in ListedIds <=> is_model_file_present(id, lst.entries)

(***************************************************************************)
(* Properties of a download over an installed model and of a retry.        *)
(***************************************************************************)
InstalledAtStart == Some(FileContent(0, 200, <<1>>, <<1>>))

\* C33: while a download_model call is under way the canonical files change
\* only in the step in which its rename succeeds, and then only the file of the
\* model being downloaded: until then, and after a failure at any point, a
\* previously installed file is in place with its content unchanged.
C33_InstalledFileKeptUntilRename ==
    [][(dpc # "idle" /\ files' # files) =>
          /\ dpc = "d_rename" /\ dpc' = "idle" /\ dcall'.ret.tag = "Ok"
          /\ files'[dl.model_id] = tmpf[dl.model_id]
          /\ \A m \in RequestIds \ {dl.model_id} : files'[m] = files[m]]_vars

\* C33 witness: a download of the installed model has failed in mid-stream and
\* the installed file is there as it was.
C33_Witness ==
    /\ dpc = "idle"
    /\ dcall.op = "download_model" /\ dcall.model_id = ModelId /\ dcall.wasInstalled
    /\ dcall.n = 1
    /\ dcall.ret = Err("Download", "stream")
    /\ dcall.progress # <<>>
    /\ files[ModelId] = InstalledAtStart

RetrySucceeded ==
    /\ dpc = "idle"
    /\ dcall.op = "download_model" /\ dcall.ret.tag = "Ok"
    /\ dcall.prev.op = "download_model" /\ dcall.prev.model_id = dcall.model_id
    /\ dcall.prev.tag = "Err" /\ dcall.prev.kind = "Download"

\* C34: after a download that failed in mid-stream and a successful retry for
\* the same model, the canonical file holds exactly the bytes of the retry's
\* response, written by the retry, and no temporary file is left.
C34_RetryFileIsRetryBytes ==
    RetrySucceeded =>
        /\ IsSome(files[dcall.model_id])
        /\ Unwrap(files[dcall.model_id]).call = dcall.n
        /\ Unwrap(files[dcall.model_id]).bytes = dl.body
        /\ Unwrap(files[dcall.model_id]).of = dl.body
        /\ tmpf[dcall.model_id] = None

\* C34 witness: a retry has succeeded after a failure in mid-stream, with a
\* body of two chunks.
C34_Witness ==
    /\ RetrySucceeded
    /\ Len(dl.body) = 2
    /\ Unwrap(files[dcall.model_id]).bytes = dl.body

\* what find_whisper_cpp has before it on the machine of the installation,
\* with no engine anywhere but in the managed bin directory
LocatorView ==
    [platform |-> "windows", current_exe |-> TRUE, data_local_dir |-> inst.data_dir,
     program_files |-> FALSE,
     exists |-> IF inst.binary # "absent" THEN {Path("clip-flow/bin", "binary")} ELSE {}]

\* C35: at every point during and after install_whisper_cpp the managed engine
\* binary is absent or completely written, and find_whisper_cpp never returns a
\* partially written one.
C35_BinaryNeverPartial ==
    inst.pc # "off" =>
        /\ inst.binary \in {"absent", "complete"}
        /\ inst.binary = "partial" => find_whisper_cpp(LocatorView) = None

\* the run failed because the engine or the requested model is missing
FailedOnAvailability ==
    /\ pc = "done"
    /\ ret \in {Err("Whisper", "whisper.cpp not found"),
                Err("ModelNotFound", run.model_id)}

\* C36: in transcribe_media the engine and the model are looked for only after
\* the extraction has succeeded: the engine is entered only with ffmpeg exited
\* with status 0, and a run that fails on a missing engine or model has probed
\* the media, has run ffmpeg once to its exit with status 0 and has emitted the
\* extracting events from 0 up to 30 percent, without starting the engine.
C36_AvailabilityCheckedAfterExtraction ==
    IsMedia =>
        /\ run.transcribeCalled => run.ffStatus = Some(0)
        /\ FailedOnAvailability =>
            /\ run.ffStatus = Some(0)
            /\ spawned.ffprobe >= 1 /\ spawned.ffmpeg = 1 /\ spawned.whisper = 0
            /\ procs.ffmpeg = "exited"
            /\ \E i, j \in 1..Len(events) :
                /\ i < j
                /\ events[i] = [stage |-> "extracting", progress |-> 0]
                /\ events[j] = [stage |-> "extracting", progress |-> 3000]

\* C36 witness: a transcribe_media run failed on a model that is not installed,
\* with the engine present, after a complete extraction
C36_Witness ==
    /\ IsMedia /\ pc = "done"
    /\ ret = Err("ModelNotFound", run.model_id)
    /\ env.whisper /\ ~is_model_installed(run.model_id)
    /\ run.ffStatus = Some(0)
    /\ events[Len(events)] = [stage |-> "transcribing", progress |-> 3000]

OverlappedDeletes(m) ==
    {i \in DeleteSlots : /\ dels.calls[i].model_id = m
                         /\ dels.calls[i].overlapped}

\* the removal of command i was not refused by the file system
NotDenied(i) == dels.calls[i].ret # Err("Io", "PermissionDenied")

\* C38: when delete_model commands for the same installed model run
\* concurrently, every one of them returns success under every interleaving of
\* their existence checks and removals, and once they have returned the model
\* is not installed (a removal the file system refuses apart).
C38_ConcurrentDeletesSucceed ==
    dels.pc = "on" =>
        \A m \in dels.present0 :
            LET D == OverlappedDeletes(m)
            IN (/\ D # {}
                /\ \A i \in D : dels.calls[i].pc = "done" /\ NotDenied(i))
               => /\ \A i \in D : dels.calls[i].ret = Ok(None)
                  /\ m \notin dels.present

\* every command that was called has returned
WatchQuiet == wat.pc = "on" /\ WatchInFlight = {}

\* watched_path is set exactly when a watcher is installed
WatcherConsistent == IsSome(wat.watched_path) <=> IsSome(wat.watcher)

\* C39: after any sequence of start_watching_directory and
\* stop_watching_directory commands that do not overlap, failed ones included,
\* watched_path is set exactly when a watcher is installed, and when set it is
\* the path of the most recent successful start.
C39_WatcherStateConsistent ==
    (WatchQuiet /\ ~wat.overlap) =>
        /\ WatcherConsistent
        /\ IsSome(wat.watched_path) =>
               wat.watched_path = wat.last_ok /\ wat.watcher = wat.last_ok

\* no command has returned an error
NoWatchError == \A i \in WatchSlots : wat.calls[i].ret.tag # "Err"

\* C40: under every interleaving of start_watching_directory and
\* stop_watching_directory commands, once all of them have returned
\* watched_path is set exactly when a watcher is installed; stated here for
\* the runs in which every command has succeeded.
C40_ConsistentWhenQuiet ==
    (WatchQuiet /\ NoWatchError) => WatcherConsistent

\* C40, the part about the mutexes: a command that has been called returns
C40_NoCallBlocksForever ==
    \A i \in WatchSlots :
        (wat.pc = "on" /\ wat.calls[i].pc # "idle") ~> (wat.calls[i].pc = "done")
====
